---------------------------- MODULE Spec2Model ----------------------------
(***************************************************************************)
(* Model of the molblock-to-text renderer of src/src/worker.ts (the latest *)
(* variant in that file, lines 435-672): parseV2000Molblock, CharSet,      *)
(* setLine/setAtom and AsciiMolDrawer.drawMolblock.                        *)
(*                                                                         *)
(* Text is a sequence of one-character strings.  The box-drawing glyphs of *)
(* the Unicode charset are written as their code points ("U2500" is the    *)
(* character U+2500).  Numbers the code holds as doubles                   *)
(* are exact rationals <<n, d>> with d > 0 in lowest terms; Math.hypot is  *)
(* exact when the squared length is the square of a rational and is        *)
(* truncated to 1/LenDen otherwise.  parseFloat is modelled for plain      *)
(* decimal literals (sign, digits, fraction); exponents and "Infinity" are *)
(* outside the input alphabet.                                             *)
(*                                                                         *)
(* The repository also keeps two earlier drawers (src/src/worker.ts 1-335  *)
(* and src/moltext-worker/src/worker.ts).  They differ from the latest one *)
(* in the write policy (_setChar) and in the display of order 4; they      *)
(* appear here only as variations of single definitions.                   *)
(***************************************************************************)
EXTENDS Integers, Sequences, FiniteSets, TLC

-----------------------------------------------------------------------------
(* Characters and strings *)

Digits == <<"0", "1", "2", "3", "4", "5", "6", "7", "8", "9">>

IsDigit(c) == \E k \in 1..10 : Digits[k] = c

DigitVal(c) == (CHOOSE k \in 1..10 : Digits[k] = c) - 1

\* the \s class of the regular expressions and of trim(), over the input alphabet
IsSpace(c) == c \in {" ", "\t", "\r", "\n"}

LowerAlpha == <<"a", "b", "c", "d", "e", "f", "g", "h", "i", "j", "k", "l", "m",
                "n", "o", "p", "q", "r", "s", "t", "u", "v", "w", "x", "y", "z">>
UpperAlpha == <<"A", "B", "C", "D", "E", "F", "G", "H", "I", "J", "K", "L", "M",
                "N", "O", "P", "Q", "R", "S", "T", "U", "V", "W", "X", "Y", "Z">>

IsLower(c) == \E k \in 1..26 : LowerAlpha[k] = c
IsUpper(c) == \E k \in 1..26 : UpperAlpha[k] = c

\* \w of the regular expression in the counts-line fallback
IsWordChar(c) == IsDigit(c) \/ IsLower(c) \/ IsUpper(c) \/ c = "_"

Min(a, b) == IF a < b THEN a ELSE b
Max(a, b) == IF a > b THEN a ELSE b
Abs(a) == IF a < 0 THEN -a ELSE a

\* String.prototype.slice(a, b) for 0 <= a <= b (0-based, end exclusive)
Slice(s, a, b) == SubSeq(s, a + 1, Min(b, Len(s)))

\* String.prototype.slice(a)
SliceFrom(s, a) == SubSeq(s, a + 1, Len(s))

StartsWith(s, p) == Len(s) >= Len(p) /\ SubSeq(s, 1, Len(p)) = p

Includes(s, p) == \E k \in 0..(Len(s) - Len(p)) : SubSeq(s, k + 1, k + Len(p)) = p

UpperChar(c) == IF IsLower(c) THEN UpperAlpha[CHOOSE k \in 1..26 : LowerAlpha[k] = c] ELSE c
LowerChar(c) == IF IsUpper(c) THEN LowerAlpha[CHOOSE k \in 1..26 : UpperAlpha[k] = c] ELSE c

\* String.prototype.toUpperCase / toLowerCase
ToUpperCase(s) == [k \in 1..Len(s) |-> UpperChar(s[k])]
ToLowerCase(s) == [k \in 1..Len(s) |-> LowerChar(s[k])]

\* index (1-based) of the first non-space character at or after i, Len(s)+1 if none
RECURSIVE SkipSpace(_, _)
SkipSpace(s, i) == IF i <= Len(s) /\ IsSpace(s[i]) THEN SkipSpace(s, i + 1) ELSE i

\* index just after the run of digits that starts at i
RECURSIVE DigitsEnd(_, _)
DigitsEnd(s, i) == IF i <= Len(s) /\ IsDigit(s[i]) THEN DigitsEnd(s, i + 1) ELSE i

\* index of the last non-space character, 0 if none
RECURSIVE LastNonSpace(_, _)
LastNonSpace(s, i) == IF i >= 1 /\ IsSpace(s[i]) THEN LastNonSpace(s, i - 1) ELSE i

\* String.prototype.trim
Trim(s) == SubSeq(s, SkipSpace(s, 1), LastNonSpace(s, Len(s)))

\* row.replace(/\s+$/g, "")
TrimEnd(s) == SubSeq(s, 1, LastNonSpace(s, Len(s)))

\* value of the decimal digits s[i..j-1]
RECURSIVE DigitsValue(_, _, _)
DigitsValue(s, i, j) == IF j <= i THEN 0 ELSE 10 * DigitsValue(s, i, j - 1) + DigitVal(s[j - 1])

RECURSIVE Pow10(_)
Pow10(k) == IF k = 0 THEN 1 ELSE 10 * Pow10(k - 1)

\* A JS number: nan, or the value v
NaN == [nan |-> TRUE, v |-> 0]
Num(x) == [nan |-> FALSE, v |-> x]

\* parseInt(s, 10): leading white space, an optional sign, a run of digits
ParseInt(s) ==
    LET i == SkipSpace(s, 1)
        signed == i <= Len(s) /\ s[i] \in {"+", "-"}
        j == IF signed THEN i + 1 ELSE i
        k == DigitsEnd(s, j)
    IN  IF k = j THEN NaN
        ELSE Num(IF signed /\ s[i] = "-" THEN -DigitsValue(s, j, k) ELSE DigitsValue(s, j, k))

\* x || dflt for a parseInt result: NaN and 0 are falsy
OrElse(p, dflt) == IF p.nan \/ p.v = 0 THEN dflt ELSE p.v

-----------------------------------------------------------------------------
(* Numbers *)

\* hypot of an irrational length is truncated to 1/LenDen
LenDen == 1000

\* 1e-6 of line 616 is 1/EpsDen
EpsDen == 1000000

\* 1.5, the average bond length assumed when there are no bonds (line 615)
FallbackAvg == <<3, 2>>

\* 1e9 of line 642
BigExtent == 1000000000

RECURSIVE GCD(_, _)
GCD(a, b) == IF b = 0 THEN a ELSE GCD(b, a % b)

Rat(n, d) ==
    LET g == GCD(Abs(n), Abs(d))
        sg == IF d < 0 THEN -1 ELSE 1
    IN  IF n = 0 THEN <<0, 1>> ELSE <<sg * (n \div g), sg * (d \div g)>>

RMul(a, b) == Rat(a[1] * b[1], a[2] * b[2])
RDiv(a, b) == Rat(a[1] * b[2], a[2] * b[1])
RNeg(a) == <<-a[1], a[2]>>
RAdd(a, b) ==
    LET g == GCD(a[2], b[2])
    IN  Rat(a[1] * (b[2] \div g) + b[1] * (a[2] \div g), (a[2] \div g) * b[2])
RSub(a, b) == RAdd(a, RNeg(b))

\* parseFloat(s): leading white space, optional sign, digits, optional fraction
ParseFloat(s) ==
    LET i == SkipSpace(s, 1)
        signed == i <= Len(s) /\ s[i] \in {"+", "-"}
        j == IF signed THEN i + 1 ELSE i
        k == DigitsEnd(s, j)
        dot == k <= Len(s) /\ s[k] = "."
        f == IF dot THEN DigitsEnd(s, k + 1) ELSE k
        nfrac == IF dot THEN f - (k + 1) ELSE 0
        whole == DigitsValue(s, j, k)
        frac == IF dot THEN DigitsValue(s, k + 1, f) ELSE 0
        mag == Rat(whole * Pow10(nfrac) + frac, Pow10(nfrac))
    IN  IF k = j /\ nfrac = 0 THEN NaN
        ELSE Num(IF signed /\ s[i] = "-" THEN RNeg(mag) ELSE mag)

\* parseFloat(...) || 0
FloatOrZero(p) == IF p.nan THEN <<0, 1>> ELSE p.v

-----------------------------------------------------------------------------
(* parseV2000Molblock, src/src/worker.ts 435-499 *)

\* mb.replace(/\r\n?/g, "\n"): what character i of mb leaves in the result.
\* CR LF and a lone CR both become LF
NormalizedChar(mb, i) ==
    IF mb[i] = "\r" THEN <<"\n">>
    ELSE IF mb[i] = "\n" /\ i > 1 /\ mb[i - 1] = "\r" THEN <<>>
    ELSE <<mb[i]>>

\* the result for characters lo..hi of mb
RECURSIVE NormalizeNewlines(_, _, _)
NormalizeNewlines(mb, lo, hi) ==
    IF lo > hi THEN <<>>
    ELSE IF lo = hi THEN NormalizedChar(mb, lo)
    ELSE LET mid == (lo + hi) \div 2
         IN  NormalizeNewlines(mb, lo, mid) \o NormalizeNewlines(mb, mid + 1, hi)

\* index of the first "\n" at or after i, Len(s)+1 if none
RECURSIVE NextNewline(_, _)
NextNewline(s, i) == IF i <= Len(s) /\ s[i] # "\n" THEN NextNewline(s, i + 1) ELSE i

\* s.split("\n") from position i: always at least one (possibly empty) line
RECURSIVE SplitFrom(_, _)
SplitFrom(s, i) ==
    LET e == NextNewline(s, i)
    IN  IF e > Len(s) THEN <<SubSeq(s, i, Len(s))>>
        ELSE <<SubSeq(s, i, e - 1)>> \o SplitFrom(s, e + 1)

SplitLines(mb) == SplitFrom(NormalizeNewlines(mb, 1, Len(mb)), 1)

\* lines[k] ?? "" for a 0-based k that may lie outside the array
LineAt(lines, k) == IF k >= 0 /\ k < Len(lines) THEN lines[k + 1] ELSE <<>>

MarkerV3000 == <<"V", "3", "0", "0", "0">>
MarkerV30 == <<"M", " ", " ", "V", "3", "0">>
MarkerCHG == <<"M", " ", " ", "C", "H", "G">>

\* a guard that looks at the counts line only
CountsLineHasV3000(lines) == Includes(ToUpperCase(LineAt(lines, 3)), MarkerV3000)

\* the V3000 guard of lines 442-444
HasV3000(lines) ==
    \/ Includes(ToUpperCase(LineAt(lines, 3)), MarkerV3000)
    \/ \E k \in 1..Len(lines) : StartsWith(lines[k], MarkerV30)

\* counts.match(/^\s*(\d{1,3})\s+(\d{1,3})\b/): <<>> when there is no match,
\* else the two numbers.  Each number is a maximal run of 1..3 digits: a longer
\* run leaves a digit where \s+ or \b is required.
MatchCounts(counts) ==
    LET a == SkipSpace(counts, 1)
        b == DigitsEnd(counts, a)
        c == SkipSpace(counts, b)
        d == DigitsEnd(counts, c)
    IN  IF /\ b - a \in 1..3
           /\ c > b
           /\ d - c \in 1..3
           /\ (d > Len(counts) \/ ~IsWordChar(counts[d]))
        THEN <<DigitsValue(counts, a, b), DigitsValue(counts, c, d)>>
        ELSE <<>>

\* a fixed-column reading of a line of any length
FixedCountsAnyLength(counts) == <<ParseInt(Slice(counts, 0, 3)), ParseInt(Slice(counts, 3, 6))>>

\* the fixed-column reading of lines 448-451
FixedCounts(counts) ==
    IF Len(counts) >= 6
    THEN <<ParseInt(Slice(counts, 0, 3)), ParseInt(Slice(counts, 3, 6))>>
    ELSE <<NaN, NaN>>

\* lines 446-457: <<>> for "Invalid counts line", else <<na, nb>>
ReadCounts(counts) ==
    LET fx == FixedCounts(counts)
    IN  IF ~fx[1].nan /\ ~fx[2].nan THEN <<fx[1].v, fx[2].v>> ELSE MatchCounts(counts)

\* lines 463-470: one atom record
ParseAtomLine(ln) ==
    LET sym == Trim(Slice(ln, 31, 34))
    IN  [x |-> FloatOrZero(ParseFloat(Slice(ln, 0, 10))),
         y |-> FloatOrZero(ParseFloat(Slice(ln, 10, 20))),
         sym |-> IF sym = <<>> THEN <<"C">> ELSE sym]

\* the atom numbers read without a default (the older worker,
\* src/moltext-worker/src/worker.ts 90-91): an unreadable number names no atom
ParseBondLineNoDefault(ln) ==
    LET i == ParseInt(Slice(ln, 0, 3))
        j == ParseInt(Slice(ln, 3, 6))
    IN  [i |-> IF i.nan THEN -1 ELSE i.v - 1,
         j |-> IF j.nan THEN -1 ELSE j.v - 1,
         order |-> OrElse(ParseInt(Slice(ln, 6, 9)), 1)]

\* lines 474-480: one bond record
ParseBondLine(ln) ==
    [i |-> OrElse(ParseInt(Slice(ln, 0, 3)), 1) - 1,
     j |-> OrElse(ParseInt(Slice(ln, 3, 6)), 1) - 1,
     order |-> OrElse(ParseInt(Slice(ln, 6, 9)), 1)]

\* lines 487-494: the (index, charge) pairs one "M  CHG" line sets, in order
ChgPairsOfLine(ln) ==
    LET n == OrElse(ParseInt(Slice(ln, 6, 9)), 0)
    IN  [t \in 1..Max(n, 0) |->
            [idx |-> OrElse(ParseInt(Slice(ln, 9 + 8 * (t - 1), 13 + 8 * (t - 1))), 0) - 1,
             chg |-> OrElse(ParseInt(Slice(ln, 13 + 8 * (t - 1), 17 + 8 * (t - 1))), 0)]]

\* lines 483-496: every chargeMap.set of the scan from 0-based line k, in order
RECURSIVE ChgPairsFrom(_, _)
ChgPairsFrom(lines, k) ==
    IF k >= Len(lines) THEN <<>>
    ELSE (IF StartsWith(LineAt(lines, k), MarkerCHG) THEN ChgPairsOfLine(LineAt(lines, k)) ELSE <<>>)
         \o ChgPairsFrom(lines, k + 1)

\* the first pair that names atom i kept, later ones dropped
RECURSIVE ChargeOfFirst(_, _, _)
ChargeOfFirst(pairs, n, i) ==
    IF n = 0 THEN 0
    ELSE LET earlier == {t \in 1..(n - 1) : pairs[t].idx = i}
         IN  IF earlier # {} THEN ChargeOfFirst(pairs, n - 1, i)
             ELSE IF pairs[n].idx = i THEN pairs[n].chg ELSE 0

\* chargeMap.get(i) ?? 0 after the sets in pairs: the last set of key i wins
RECURSIVE ChargeOf(_, _, _)
ChargeOf(pairs, n, i) ==
    IF n = 0 THEN 0
    ELSE IF pairs[n].idx = i THEN pairs[n].chg ELSE ChargeOf(pairs, n - 1, i)

NoMol == [na |-> 0, nb |-> 0, coords |-> <<>>, symbols |-> <<>>, charges |-> <<>>, bonds |-> <<>>]

\* parseV2000Molblock: err is "none" or the Error thrown
ParseV2000Molblock(mb) ==
    LET lines == SplitLines(mb)
        cnt == ReadCounts(LineAt(lines, 3))
    IN  IF Len(lines) < 4 THEN [err |-> "Molblock too short", mol |-> NoMol]
        ELSE IF HasV3000(lines) THEN [err |-> "V3000 molblock not supported", mol |-> NoMol]
        ELSE IF cnt = <<>> THEN [err |-> "Invalid counts line", mol |-> NoMol]
        ELSE LET na == cnt[1]
                 nb == cnt[2]
                 bbase == 4 + na
                 atoms == [k \in 1..Max(na, 0) |-> ParseAtomLine(LineAt(lines, 4 + k - 1))]
                 pairs == ChgPairsFrom(lines, bbase + nb)
             IN  [err |-> "none",
                  mol |-> [na |-> na, nb |-> nb,
                           coords |-> [k \in 1..Max(na, 0) |-> <<atoms[k].x, atoms[k].y>>],
                           symbols |-> [k \in 1..Max(na, 0) |-> atoms[k].sym],
                           charges |-> [k \in 1..Max(na, 0) |-> ChargeOf(pairs, Len(pairs), k - 1)],
                           bonds |-> [k \in 1..Max(nb, 0) |-> ParseBondLine(LineAt(lines, bbase + k - 1))]]]

-----------------------------------------------------------------------------
(* CharSet, isLineChar, setLine, setAtom: src/src/worker.ts 501-531 *)

\* new CharSet()
UnicodeCharSet ==
    [h_single |-> "U2500", v_single |-> "U2502", slash |-> "U2571", backslash |-> "U2572",
     h_double |-> "U2550", v_double |-> "U2551", h_triple |-> "U2261"]

\* CharSet.ascii()
AsciiCharSet ==
    [h_single |-> "-", v_single |-> "|", slash |-> "/", backslash |-> "\\",
     h_double |-> "=", v_double |-> "|", h_triple |-> "#"]

LINE_CHARS_ASCII == {"-", "|", "\\", "/", "=", "#", "+"}
LINE_CHARS_UNI == {"U2500", "U2502", "U2571", "U2572", "U2550", "U2551", "U2261", "U253C", "+"}

IsLineChar(ch) == ch \in LINE_CHARS_ASCII \/ ch \in LINE_CHARS_UNI

JunctionChar(useUnicode) == IF useUnicode THEN "U253C" ELSE "+"

\* a grid is a sequence of rows, each a sequence of characters; r and c are 0-based
GridHeight(grid) == Len(grid)
GridWidth(grid) == Len(grid[1])

OffGrid(grid, r, c) == r < 0 \/ r >= GridHeight(grid) \/ c < 0 \/ c >= GridWidth(grid)

Put(grid, r, c, ch) == [grid EXCEPT ![r + 1][c + 1] = ch]

\* a line glyph written onto the same glyph is kept, as _setChar of the older
\* drawer keeps it (src/moltext-worker/src/worker.ts 236-241)
SetLineKeepSame(grid, r, c, ch, useUnicode) ==
    IF OffGrid(grid, r, c) THEN grid
    ELSE LET existing == grid[r + 1][c + 1]
         IN  IF existing = " " THEN Put(grid, r, c, ch)
             ELSE IF IsLineChar(existing) /\ IsLineChar(ch) /\ existing # ch
                  THEN Put(grid, r, c, JunctionChar(useUnicode))
                  ELSE grid

\* setLine, lines 518-526
SetLine(grid, r, c, ch, useUnicode) ==
    IF OffGrid(grid, r, c) THEN grid
    ELSE LET existing == grid[r + 1][c + 1]
         IN  IF existing = " " THEN Put(grid, r, c, ch)
             ELSE IF IsLineChar(existing) /\ IsLineChar(ch)
                  THEN Put(grid, r, c, JunctionChar(useUnicode))
                  ELSE grid

\* the single write policy of the older drawer (_setChar,
\* src/moltext-worker/src/worker.ts 236-241): a differing character makes "+"
SetCharAnyConflict(grid, r, c, ch) ==
    IF OffGrid(grid, r, c) THEN grid
    ELSE IF grid[r + 1][c + 1] = " " \/ grid[r + 1][c + 1] = ch THEN Put(grid, r, c, ch)
    ELSE Put(grid, r, c, "+")

SetAtom(grid, r, c, ch) == IF OffGrid(grid, r, c) THEN grid ELSE Put(grid, r, c, ch)

-----------------------------------------------------------------------------
(* AsciiMolDrawer: src/src/worker.ts 533-672 *)

\* the character set the constructor stores (line 541)
CharSetOf(cfg) == IF cfg.use_unicode THEN UnicodeCharSet ELSE AsciiCharSet

\* line 562
UseUnicode(cfg) == CharSetOf(cfg).h_single # "-"

\* String(n) for n >= 0
RECURSIVE DecimalOf(_)
DecimalOf(n) == IF n < 10 THEN <<Digits[n + 1]>> ELSE DecimalOf(n \div 10) \o <<Digits[(n % 10) + 1]>>

\* the magnitude written for every charge, 1 included
LabelWithMagnitude(sym, q, cfg) ==
    LET s == IF ToLowerCase(sym) = <<"c">> THEN <<"C">> ELSE sym
    IN  IF cfg.show_formal_charge /\ q # 0
        THEN s \o (IF q > 0 THEN <<"+">> ELSE <<"-">>) \o DecimalOf(Abs(q))
        ELSE s

\* _label, lines 604-608
Label(sym, q, cfg) ==
    LET s == IF ToLowerCase(sym) = <<"c">> THEN <<"C">> ELSE sym
        sign == IF q > 0 THEN <<"+">> ELSE <<"-">>
    IN  IF cfg.show_formal_charge /\ q # 0
        THEN s \o (IF Abs(q) = 1 THEN sign ELSE sign \o DecimalOf(Abs(q)))
        ELSE s

Labels(mol, cfg) == [k \in 1..Len(mol.symbols) |-> Label(mol.symbols[k], mol.charges[k], cfg)]

\* floor of the square root of n >= 0, by bisection on lo..hi
RECURSIVE ISqrtIn(_, _, _)
ISqrtIn(n, lo, hi) ==
    IF lo >= hi THEN lo
    ELSE LET mid == (lo + hi + 1) \div 2
         IN  IF mid * mid <= n THEN ISqrtIn(n, mid, hi) ELSE ISqrtIn(n, lo, mid - 1)

ISqrt(n) == ISqrtIn(n, 0, Min(n, 46340))

IsSquare(n) == ISqrt(n) * ISqrt(n) = n

\* Math.hypot(dx, dy)
Hypot(dx, dy) ==
    LET sq == RAdd(RMul(dx, dx), RMul(dy, dy))
    IN  IF IsSquare(sq[1]) /\ IsSquare(sq[2]) THEN Rat(ISqrt(sq[1]), ISqrt(sq[2]))
        ELSE Rat(ISqrt((sq[1] * LenDen * LenDen) \div sq[2]), LenDen)

\* a bond names atoms the molecule has (pts[b.i] and pts[b.j] are defined)
BondInRange(b, n) == b.i >= 0 /\ b.i < n /\ b.j >= 0 /\ b.j < n

BondLength(coords, b) ==
    Hypot(RSub(coords[b.i + 1][1], coords[b.j + 1][1]), RSub(coords[b.i + 1][2], coords[b.j + 1][2]))

RECURSIVE SumLengths(_, _, _)
SumLengths(coords, bonds, k) ==
    IF k = 0 THEN <<0, 1>> ELSE RAdd(SumLengths(coords, bonds, k - 1), BondLength(coords, bonds[k]))

\* Math.max(avg, 1e-6)
AtLeastEps(avg) == IF avg[1] <= (avg[2] - 1) \div EpsDen THEN <<1, EpsDen>> ELSE avg

\* _initialScale, lines 610-617, for bonds that are all in range
InitialScale(coords, bonds, cfg) ==
    LET avg == IF Len(bonds) > 0
               THEN RDiv(SumLengths(coords, bonds, Len(bonds)), <<Len(bonds), 1>>)
               ELSE FallbackAvg
    IN  RDiv(RMul(<<2, 1>>, cfg.target_bond_chars), AtLeastEps(avg))

\* Math.round(v / 2) for a rational v: floor(v/2 + 1/2)
RoundHalf(v) == (v[1] + v[2]) \div (2 * v[2])

\* Math.round(v): rounding to the nearest integer, even or odd
NearestInteger(v) == (2 * v[1] + v[2]) \div (2 * v[2])

\* _nearestEven, line 619
NearestEven(v) == 2 * RoundHalf(v)

\* _placeAtomsEvenGrid, lines 621-623
PlaceAtomsEvenGrid(coords, s) ==
    [k \in 1..Len(coords) |-> <<NearestEven(RMul(coords[k][1], s)), NearestEven(RMul(RNeg(coords[k][2]), s))>>]

\* Math.trunc(a / 2)
TruncHalf(a) == IF a >= 0 THEN a \div 2 ELSE -((-a) \div 2)

\* a label that starts at the atom's column instead of being centred on it
LabelStartAtColumn(x, lab) == x

\* Math.trunc(lab.length / 2) columns left of x
LabelStart(x, lab) == x - TruncHalf(Len(lab))
LabelEnd(x, lab) == LabelStart(x, lab) + Len(lab) - 1

\* _labelsOverlap, lines 625-639: atom i is compared with the earlier atoms of its row
LabelsOverlap(pts, labels) ==
    \E i \in 1..Len(pts) : \E j \in 1..(i - 1) :
        /\ pts[j][2] = pts[i][2]
        /\ ~(\/ LabelEnd(pts[i][1], labels[i]) < LabelStart(pts[j][1], labels[j]) + 1
             \/ LabelStart(pts[i][1], labels[i]) > LabelEnd(pts[j][1], labels[j]) - 1)

\* the declared order drawn as it is (the first drawer of the file, lines 155-162)
DeclaredOrder(order) == order

\* display order, lines 571 and 653
DisplayOrder(order) == IF order = 4 THEN 2 ELSE order

\* a glyph put at the first atom of the bond instead of the midpoint
ColumnOfFirstAtom(pts, b) == pts[b.i + 1][1]

MidX(pts, b) == TruncHalf(pts[b.i + 1][1] + pts[b.j + 1][1])
MidY(pts, b) == TruncHalf(pts[b.i + 1][2] + pts[b.j + 1][2])

IsDiag(pts, b) == pts[b.i + 1][1] # pts[b.j + 1][1] /\ pts[b.i + 1][2] # pts[b.j + 1][2]

\* line 655
ExtraMargin(pts, b) == IF IsDiag(pts, b) /\ DisplayOrder(b.order) >= 2 THEN 1 ELSE 0

\* the extents of the atoms' cells alone, the width of the labels left out
RECURSIVE AtomExtentsOfPoints(_, _, _)
AtomExtentsOfPoints(pts, labels, k) ==
    IF k = 0 THEN [minx |-> BigExtent, miny |-> BigExtent, maxx |-> -BigExtent, maxy |-> -BigExtent]
    ELSE LET e == AtomExtentsOfPoints(pts, labels, k - 1)
         IN  [minx |-> Min(e.minx, pts[k][1]),
              maxx |-> Max(e.maxx, pts[k][1]),
              miny |-> Min(e.miny, pts[k][2]),
              maxy |-> Max(e.maxy, pts[k][2])]

\* lines 643-648 folded over atoms 1..k; e is [minx, miny, maxx, maxy]
RECURSIVE AtomExtents(_, _, _)
AtomExtents(pts, labels, k) ==
    IF k = 0 THEN [minx |-> BigExtent, miny |-> BigExtent, maxx |-> -BigExtent, maxy |-> -BigExtent]
    ELSE LET e == AtomExtents(pts, labels, k - 1)
         IN  [minx |-> Min(e.minx, LabelStart(pts[k][1], labels[k])),
              maxx |-> Max(e.maxx, LabelEnd(pts[k][1], labels[k])),
              miny |-> Min(e.miny, pts[k][2]),
              maxy |-> Max(e.maxy, pts[k][2])]

\* lines 649-658 folded over bonds 1..k
RECURSIVE BondExtents(_, _, _, _)
BondExtents(pts, labels, bonds, k) ==
    IF k = 0 THEN AtomExtents(pts, labels, Len(pts))
    ELSE LET e == BondExtents(pts, labels, bonds, k - 1)
             mx == MidX(pts, bonds[k])
             my == MidY(pts, bonds[k])
             extra == ExtraMargin(pts, bonds[k])
         IN  [minx |-> Min(e.minx, mx - extra), maxx |-> Max(e.maxx, mx + extra),
              miny |-> Min(e.miny, my - extra), maxy |-> Max(e.maxy, my + extra)]

\* _extentsWithLabelsAndBonds, lines 641-660
ExtentsWithLabelsAndBonds(pts, labels, bonds) == BondExtents(pts, labels, bonds, Len(bonds))

\* a frame whose origin is moved against the padding
FramePadOutward(pts, labels, bonds, cfg) ==
    LET e == ExtentsWithLabelsAndBonds(pts, labels, bonds)
    IN  [width |-> e.maxx - e.minx + 1 + 2 * cfg.pad,
         height |-> e.maxy - e.miny + 1 + 2 * cfg.pad,
         ox |-> -e.minx - cfg.pad,
         oy |-> -e.miny - cfg.pad]

\* lines 557-560
Frame(pts, labels, bonds, cfg) ==
    LET e == ExtentsWithLabelsAndBonds(pts, labels, bonds)
    IN  [width |-> e.maxx - e.minx + 1 + 2 * cfg.pad,
         height |-> e.maxy - e.miny + 1 + 2 * cfg.pad,
         ox |-> -e.minx + cfg.pad,
         oy |-> -e.miny + cfg.pad]

\* line 561: Array.from({length: n}) has no element when n <= 0
BlankGrid(width, height) == [r \in 1..Max(height, 0) |-> [c \in 1..Max(width, 0) |-> " "]]

\* _bondChar, lines 662-671
BondChar(p1, p2, order, cs) ==
    IF p1[2] = p2[2]
    THEN (IF order = 2 THEN cs.h_double ELSE IF order = 3 THEN cs.h_triple ELSE cs.h_single)
    ELSE IF p1[1] = p2[1]
         THEN (IF order = 2 THEN cs.v_double ELSE cs.v_single)
         ELSE (IF (p2[1] - p1[1]) * (p2[2] - p1[2]) < 0 THEN cs.slash ELSE cs.backslash)

\* the third stroke of a diagonal triple bond put in the midpoint's row, on the
\* other side of the midpoint
DrawBondExtrasInRow(grid, pts, b, fr, cs) ==
    LET uni == cs.h_single # "-"
        r == MidY(pts, b) + fr.oy
        c == MidX(pts, b) + fr.ox
        order == DisplayOrder(b.order)
        ch == BondChar(pts[b.i + 1], pts[b.j + 1], order, cs)
        g1 == SetLine(grid, r, c, ch, uni)
    IN  IF IsDiag(pts, b) /\ order >= 2
        THEN IF ch = cs.slash
             THEN LET g2 == SetLine(g1, r, c + 1, ch, uni)
                  IN  IF order >= 3 THEN SetLine(g2, r, c - 1, ch, uni) ELSE g2
             ELSE LET g2 == SetLine(g1, r, c - 1, ch, uni)
                  IN  IF order >= 3 THEN SetLine(g2, r, c + 1, ch, uni) ELSE g2
        ELSE g1

\* one iteration of the bond loop, lines 565-588, for a drawer whose cs is the
\* glyph table cs
DrawBondWith(grid, pts, b, fr, cs) ==
    LET uni == cs.h_single # "-"
        r == MidY(pts, b) + fr.oy
        c == MidX(pts, b) + fr.ox
        order == DisplayOrder(b.order)
        ch == BondChar(pts[b.i + 1], pts[b.j + 1], order, cs)
        g1 == SetLine(grid, r, c, ch, uni)
    IN  IF IsDiag(pts, b) /\ order >= 2
        THEN IF ch = cs.slash
             THEN LET g2 == SetLine(g1, r, c + 1, ch, uni)
                  IN  IF order >= 3 THEN SetLine(g2, r - 1, c - 1, ch, uni) ELSE g2
             ELSE LET g2 == SetLine(g1, r, c - 1, ch, uni)
                  IN  IF order >= 3 THEN SetLine(g2, r - 1, c + 1, ch, uni) ELSE g2
        ELSE g1

\* the same for the drawer the constructor makes from cfg
DrawBond(grid, pts, b, fr, cfg) == DrawBondWith(grid, pts, b, fr, CharSetOf(cfg))

\* line 595 for characters 1..k of the label
RECURSIVE WriteLabel(_, _, _, _, _)
WriteLabel(grid, r, c0, lab, k) ==
    IF k = 0 THEN grid
    ELSE SetAtom(WriteLabel(grid, r, c0, lab, k - 1), r, c0 + k - 1, lab[k])

\* one iteration of the atom loop, lines 591-596
DrawAtom(grid, pt, lab, fr) ==
    WriteLabel(grid, pt[2] + fr.oy, LabelStart(pt[1], lab) + fr.ox, lab, Len(lab))

IsBlank(row) == Trim(row) = <<>>

\* line 599
RECURSIVE DropLeadingBlank(_)
DropLeadingBlank(lines) ==
    IF Len(lines) > 0 /\ IsBlank(lines[1]) THEN DropLeadingBlank(Tail(lines)) ELSE lines

\* rows that keep their blank tail
KeepTrailingBlank(lines) == lines

\* line 600
RECURSIVE DropTrailingBlank(_)
DropTrailingBlank(lines) ==
    IF Len(lines) > 0 /\ IsBlank(lines[Len(lines)])
    THEN DropTrailingBlank(SubSeq(lines, 1, Len(lines) - 1))
    ELSE lines

\* lines 598-600: the rows of the result
OutputRows(grid) == DropTrailingBlank(DropLeadingBlank([r \in 1..Len(grid) |-> TrimEnd(grid[r])]))

\* lines.join("\n")
RECURSIVE JoinLines(_)
JoinLines(lines) ==
    IF Len(lines) = 0 THEN <<>>
    ELSE IF Len(lines) = 1 THEN lines[1]
    ELSE lines[1] \o <<"\n">> \o JoinLines(Tail(lines))

-----------------------------------------------------------------------------
(* Configurations: the constructor parameters, lines 534-542 *)

DefaultPad == 2
DefaultMaxBumps == 8

DefaultConfig ==
    [target_bond_chars |-> <<1, 1>>, use_unicode |-> TRUE, pad |-> DefaultPad,
     scale_bump |-> <<28, 25>>, max_bumps |-> DefaultMaxBumps, show_formal_charge |-> TRUE]

AsciiConfig == [DefaultConfig EXCEPT !.use_unicode = FALSE]

\* the values each parameter takes in the model
PadValues == {-1, 0, 1, DefaultPad, DefaultPad + 1}
BumpValues == {<<28, 25>>, <<3, 2>>, <<2, 1>>}
MaxBumpsValues == {0, 1, DefaultMaxBumps}

\* the default configuration and every change of one parameter
Configs ==
    {DefaultConfig, AsciiConfig}
    \cup {[DefaultConfig EXCEPT !.pad = p] : p \in PadValues}
    \cup {[DefaultConfig EXCEPT !.scale_bump = b] : b \in BumpValues}
    \cup {[DefaultConfig EXCEPT !.max_bumps = m] : m \in MaxBumpsValues}
    \cup {[DefaultConfig EXCEPT !.show_formal_charge = FALSE]}
    \cup {[DefaultConfig EXCEPT !.target_bond_chars = <<2, 1>>]}

-----------------------------------------------------------------------------
(* Input texts: V2000 molblocks as mol.get_molblock() writes them (line 741), *)
(* and damaged ones                                                           *)

RECURSIVE Spaces(_)
Spaces(n) == IF n <= 0 THEN <<>> ELSE <<" ">> \o Spaces(n - 1)

PadLeft(s, w) == Spaces(w - Len(s)) \o s
PadRight(s, w) == s \o Spaces(w - Len(s))

IntText(n) == IF n < 0 THEN <<"-">> \o DecimalOf(-n) ELSE DecimalOf(n)

\* "%3d" and "%4d"
Field3(n) == PadLeft(IntText(n), 3)
Field4(n) == PadLeft(IntText(n), 4)

\* "%10.4f" of h/100
CoordField(h) ==
    LET a == Abs(h)
        txt == (IF h < 0 THEN <<"-">> ELSE <<>>) \o DecimalOf(a \div 100)
               \o <<".", Digits[((a \div 10) % 10) + 1], Digits[(a % 10) + 1], "0", "0">>
    IN  PadLeft(txt, 10)

\* an atom line: x, y, z in columns 0-30, the symbol in columns 31-34
AtomLine(a) ==
    CoordField(a.x) \o CoordField(a.y) \o CoordField(0) \o <<" ">> \o PadRight(a.sym, 3)
    \o <<" ", "0", " ", " ", "0">>

BondLine(b) == Field3(b.i) \o Field3(b.j) \o Field3(b.order) \o <<" ", " ", "0">>

RECURSIVE ChgFields(_)
ChgFields(pairs) ==
    IF Len(pairs) = 0 THEN <<>>
    ELSE Field4(pairs[1][1]) \o Field4(pairs[1][2]) \o ChgFields(Tail(pairs))

\* "M  CHG" with its count and (atom number, charge) pairs
ChgLine(pairs) == MarkerCHG \o Field3(Len(pairs)) \o ChgFields(pairs)

V2000Tail == <<" ", " ", "0", " ", "V", "2", "0", "0", "0">>
CountsLine(na, nb) == Field3(na) \o Field3(nb) \o V2000Tail
EndLine == <<"M", " ", " ", "E", "N", "D">>
Header == << <<>>, <<" ", " ", "R", "D", "K", "i", "t">>, <<>> >>

RECURSIVE JoinWith(_, _)
JoinWith(lines, sep) ==
    IF Len(lines) = 0 THEN <<>>
    ELSE IF Len(lines) = 1 THEN lines[1]
    ELSE lines[1] \o sep \o JoinWith(Tail(lines), sep)

TextOf(lines) == JoinWith(lines, <<"\n">>)

\* the block of a molecule: atoms [x, y, sym] (x, y in 1/100), bonds [i, j, order]
\* (1-based atom numbers), charge pairs
MolLines(counts, atoms, bonds, chg) ==
    Header \o <<counts>>
    \o [k \in 1..Len(atoms) |-> AtomLine(atoms[k])]
    \o [k \in 1..Len(bonds) |-> BondLine(bonds[k])]
    \o (IF Len(chg) > 0 THEN <<ChgLine(chg)>> ELSE <<>>)
    \o <<EndLine>>

MolText(atoms, bonds, chg) == TextOf(MolLines(CountsLine(Len(atoms), Len(bonds)), atoms, bonds, chg))

At(x, y, sym) == [x |-> x, y |-> y, sym |-> sym]
Bd(i, j, order) == [i |-> i, j |-> j, order |-> order]

\* two atoms: the first at the origin, the second to the right, above, on either
\* diagonal, on the first, or to the left
SecondPositions == {<<150, 0>>, <<0, 150>>, <<90, 120>>, <<90, -120>>, <<0, 0>>, <<-150, 0>>}

\* symbols and charges of the two atoms
Labelings ==
    { [s1 |-> <<"C">>, s2 |-> <<"C">>, chg |-> <<>>],
      [s1 |-> <<"c">>, s2 |-> <<"C", "l">>, chg |-> << <<2, -1>> >>],
      [s1 |-> <<"N">>, s2 |-> <<"O">>, chg |-> << <<1, 1>>, <<2, -2>> >>],
      [s1 |-> <<"C", "l">>, s2 |-> <<"C", "l">>, chg |-> <<>>] }

\* no bond, one bond of each order, the same bond twice
BondLists ==
    { <<>>, <<Bd(1, 2, 1)>>, <<Bd(1, 2, 2)>>, <<Bd(1, 2, 3)>>, <<Bd(1, 2, 4)>>,
      <<Bd(1, 2, 1), Bd(2, 1, 2)>> }

TwoAtomTexts ==
    { MolText(<<At(0, 0, l.s1), At(p[1], p[2], l.s2)>>, b, l.chg) :
        p \in SecondPositions, l \in Labelings, b \in BondLists }

\* larger molecules: a zigzag chain; three atoms in a row whose outer bond passes
\* over the middle atom; a short bond next to a long one; two wide labels close
\* together; two crossing bonds
LargerTexts ==
    { MolText(<<At(0, 0, <<"C">>), At(120, 90, <<"C">>), At(240, 0, <<"O">>)>>,
              <<Bd(1, 2, 1), Bd(2, 3, 2)>>, <<>>),
      MolText(<<At(0, 0, <<"C">>), At(150, 0, <<"N">>), At(300, 0, <<"C">>)>>,
              <<Bd(1, 2, 1), Bd(2, 3, 1), Bd(1, 3, 1)>>, <<>>),
      MolText(<<At(0, 0, <<"C">>), At(300, 0, <<"N">>), At(300, 30, <<"O">>)>>,
              <<Bd(1, 2, 1), Bd(2, 3, 1)>>, <<>>),
      MolText(<<At(0, 60, <<"C", "l">>), At(45, 75, <<"C", "l">>)>>, <<>>, <<>>),
      MolText(<<At(0, 0, <<"C">>), At(300, 0, <<"C">>), At(150, 150, <<"N">>), At(150, -150, <<"O">>)>>,
              <<Bd(1, 2, 1), Bd(3, 4, 1)>>, <<>>) }

\* the molecule the damaged texts start from: C and N on a row, one single bond
BaseAtomLines == <<AtomLine(At(0, 0, <<"C">>)), AtomLine(At(150, 0, <<"N">>))>>
BaseBondLines == <<BondLine(Bd(1, 2, 1))>>

WithCounts(counts) == TextOf(Header \o <<counts>> \o BaseAtomLines \o BaseBondLines \o <<EndLine>>)
WithBondLine(ln) == TextOf(Header \o <<CountsLine(2, 1)>> \o BaseAtomLines \o <<ln>> \o <<EndLine>>)
WithAtomLine(ln) == TextOf(Header \o <<CountsLine(2, 1)>> \o <<ln, BaseAtomLines[2]>> \o BaseBondLines \o <<EndLine>>)
WithLastLine(ln) == TextOf(Header \o <<CountsLine(2, 1)>> \o BaseAtomLines \o BaseBondLines \o <<ln, EndLine>>)

\* counts lines: read by fixed columns; read by the fallback pattern only; too
\* short for the fixed columns; unreadable; negative, zero or too large counts;
\* more atoms and bonds than the block has lines for
CountsLines ==
    { CountsLine(2, 1),
      Spaces(4) \o <<"2", " ", "1">>,
      <<"2", " ", " ", " ", " ", " ", "1">>,
      <<"2", " ", "1">>,
      <<"2", " ", "1", " ", "0">>,
      <<"1", " ", "2", "1">>,
      <<>>,
      <<"a", "b", "c">>,
      <<" ", " ", "x">> \o Field3(1) \o V2000Tail,
      <<" ", " ", "2", " ", " ", "1", "x">>,
      <<"2", " ", "1", "_">>,
      Field3(-1) \o Field3(0) \o V2000Tail,
      Field3(2) \o Field3(-1) \o V2000Tail,
      Field3(0) \o Field3(0) \o V2000Tail,
      Field3(0) \o Field3(1) \o V2000Tail,
      Field3(3) \o Field3(1) \o V2000Tail,
      Field3(2) \o Field3(2) \o V2000Tail,
      Field3(1) \o Field3(0) \o V2000Tail,
      Field3(5) \o Field3(4),
      Field3(2) \o Field3(0) \o <<" ">> \o MarkerV3000,
      Field3(2) \o Field3(1) \o <<" ", "v", "3", "0", "0", "0">> }

\* bond lines: an unreadable, zero or out-of-range atom number; an unreadable,
\* zero or unknown order; an empty line
BondLines ==
    { <<" ", " ", "x">> \o Field3(2) \o Field3(1),
      Field3(0) \o Field3(2) \o Field3(1),
      Field3(1) \o Field3(5) \o Field3(1),
      Field3(-1) \o Field3(2) \o Field3(1),
      Field3(1) \o Field3(2) \o <<" ", " ", "x">>,
      Field3(1) \o Field3(2) \o Field3(0),
      Field3(1) \o Field3(2) \o Field3(7),
      Field3(2) \o Field3(2) \o Field3(2),
      <<>> }

\* atom lines: an unreadable x, an unreadable y, a blank symbol, a line cut
\* short, a number without fraction
AtomLines ==
    { PadLeft(<<"a", "b", "c">>, 10) \o CoordField(0) \o CoordField(0) \o <<" ", "O", " ", " ">>,
      CoordField(0) \o PadLeft(<<"-", ".">>, 10) \o CoordField(0) \o <<" ", "O", " ", " ">>,
      CoordField(0) \o CoordField(0) \o CoordField(0) \o Spaces(4),
      CoordField(0) \o CoordField(150),
      PadLeft(<<"-", "3">>, 10) \o PadLeft(<<".", "5">>, 10) \o CoordField(0) \o <<" ", " ", "O", " ">> }

\* property lines: charges of both atoms, a later line that sets one again, a
\* pair that names no atom, a count larger than the pairs present
ExtraLines ==
    { ChgLine(<< <<1, 1>>, <<2, -1>> >>),
      ChgLine(<< <<1, 2>>, <<1, -1>> >>),
      ChgLine(<< <<3, 1>>, <<0, 2>> >>),
      MarkerCHG \o Field3(2) \o Field4(2) \o Field4(3),
      <<" ">> \o MarkerV30,
      MarkerV30 \o <<" ", "E", "N", "D">> }

\* two charge lines, the second setting atom 1 again; a charge line that the
\* counts line makes the second bond line
WithTail(counts, tail) == TextOf(Header \o <<counts>> \o BaseAtomLines \o BaseBondLines \o tail \o <<EndLine>>)

ChargeTexts ==
    { WithTail(CountsLine(2, 1), <<ChgLine(<< <<1, 1>> >>), ChgLine(<< <<1, -1>>, <<2, 1>> >>)>>),
      WithTail(CountsLine(2, 2), <<ChgLine(<< <<1, 1>> >>)>>) }

DamagedTexts ==
    ChargeTexts
    \cup {WithCounts(c) : c \in CountsLines}
    \cup {WithBondLine(b) : b \in BondLines}
    \cup {WithAtomLine(a) : a \in AtomLines}
    \cup {WithLastLine(x) : x \in ExtraLines}
    \cup { <<>>,
           TextOf(Header),
           TextOf(<< <<>>, MarkerV30, <<>> >>),
           TextOf(<< <<>>, <<"x", " ">> \o MarkerV30, <<>>, CountsLine(2, 1)>> \o BaseAtomLines \o BaseBondLines),
           TextOf(Header \o <<CountsLine(2, 1)>>),
           TextOf(Header \o <<CountsLine(2, 1)>> \o BaseAtomLines),
           JoinWith(Header \o <<CountsLine(2, 1)>> \o BaseAtomLines \o BaseBondLines \o <<EndLine>>, <<"\r", "\n">>),
           JoinWith(Header \o <<CountsLine(2, 1)>> \o BaseAtomLines \o BaseBondLines \o <<EndLine>>, <<"\r">>) }

InputTexts == TwoAtomTexts \cup LargerTexts \cup DamagedTexts

-----------------------------------------------------------------------------
(* Bounds of the model *)

\* a grid wider or taller than this is not drawn by the model
MaxGridSide == 24

\* the scale's numerator and denominator stay within this, so that every
\* product of the placement fits TLC's integers
MaxScaleTerm == 10000000

ScaleFits(s) == s[1] <= MaxScaleTerm /\ s[2] <= MaxScaleTerm

-----------------------------------------------------------------------------
(* drawMolblock as a function of its argument and the drawer's fields, for the *)
(* properties that compare two calls                                           *)

\* the loop of lines 550-554 from attempt a at scale sc
RECURSIVE RetryLoop(_, _, _, _, _)
RetryLoop(coords, labs, sc, a, c) ==
    IF ~ScaleFits(sc) THEN [capped |-> TRUE, pts |-> <<>>, s |-> sc, attempt |-> a]
    ELSE LET placed == PlaceAtomsEvenGrid(coords, sc)
         IN  IF ~LabelsOverlap(placed, labs)
             THEN [capped |-> FALSE, pts |-> placed, s |-> sc, attempt |-> a]
             ELSE IF a + 1 <= c.max_bumps
                  THEN RetryLoop(coords, labs, RMul(sc, c.scale_bump), a + 1, c)
                  ELSE [capped |-> FALSE, pts |-> placed, s |-> RMul(sc, c.scale_bump), attempt |-> a + 1]

\* the loop of lines 565-588 over bonds 1..k, with the glyph table cs
RECURSIVE DrawBondsWith(_, _, _, _, _, _)
DrawBondsWith(g, p, bonds, k, fr, cs) ==
    IF k = 0 THEN g ELSE DrawBondWith(DrawBondsWith(g, p, bonds, k - 1, fr, cs), p, bonds[k], fr, cs)

DrawBonds(g, p, bonds, k, fr, c) == DrawBondsWith(g, p, bonds, k, fr, CharSetOf(c))

\* the loop of lines 591-596 over atoms 1..k
RECURSIVE DrawAtoms(_, _, _, _, _)
DrawAtoms(g, p, labs, k, fr) ==
    IF k = 0 THEN g ELSE DrawAtom(DrawAtoms(g, p, labs, k - 1, fr), p[k], labs[k], fr)

\* lines 546-601 for a parsed molecule: status is "done" with the text returned,
\* "error" (the TypeError of line 612) or "capped" (beyond the model's bounds)
RenderMolWith(m, c, cs) ==
    LET labs == Labels(m, c)
    IN  IF \E k \in 1..Len(m.bonds) : ~BondInRange(m.bonds[k], Len(m.coords))
        THEN [status |-> "error", err |-> "TypeError", out |-> <<>>]
        ELSE LET lay == RetryLoop(m.coords, labs, InitialScale(m.coords, m.bonds, c), 0, c)
                 fr == Frame(lay.pts, labs, m.bonds, c)
             IN  IF lay.capped \/ fr.width > MaxGridSide \/ fr.height > MaxGridSide
                 THEN [status |-> "capped", err |-> "none", out |-> <<>>]
                 ELSE [status |-> "done", err |-> "none",
                       out |-> JoinLines(OutputRows(
                                 DrawAtoms(DrawBondsWith(BlankGrid(fr.width, fr.height), lay.pts,
                                                         m.bonds, Len(m.bonds), fr, cs),
                                           lay.pts, labs, Len(lay.pts), fr)))]

RenderMol(m, c) == RenderMolWith(m, c, CharSetOf(c))

\* drawMolblock(mb) of a drawer with fields c and glyph table cs
DrawMolblockWith(text, c, cs) ==
    LET res == ParseV2000Molblock(text)
    IN  IF res.err # "none" THEN [status |-> "error", err |-> res.err, out |-> <<>>]
        ELSE RenderMolWith(res.mol, c, cs)

\* drawMolblock(mb), lines 544-602
DrawMolblock(text, c) ==
    LET res == ParseV2000Molblock(text)
    IN  IF res.err # "none" THEN [status |-> "error", err |-> res.err, out |-> <<>>]
        ELSE RenderMol(res.mol, c)

-----------------------------------------------------------------------------
(* drawMolblock as a state machine: one call, lines 544-602 *)

VARIABLES
    mb,        \* the argument of drawMolblock
    cfg,       \* the drawer's fields
    pc,        \* where the call is
    err,       \* the Error thrown, "none" while none is
    mol,       \* the result of parseV2000Molblock
    labels,    \* line 546
    s,         \* the scale, line 548
    attempt,   \* the loop counter of line 550
    pts,       \* the placements, line 551
    frame,     \* width, height, ox, oy of lines 557-560
    grid,      \* line 561
    bi,        \* bonds drawn so far
    ai,        \* atoms drawn so far
    out,       \* the string returned
    heap,      \* the CharSet objects made so far
    drawers,   \* the AsciiMolDrawer objects made so far
    calls,     \* the drawMolblock calls that have returned
    handler    \* the request the fetch handler is working on

call == <<mb, cfg, pc, err, mol, labels, s, attempt, pts, frame, grid, bi, ai, out>>

objects == <<heap, drawers, calls, handler>>

vars == <<call, objects>>

\* no request
NoRequest ==
    [pc |-> "none", name |-> FALSE, smi |-> FALSE, echo |-> FALSE, fmt |-> "text", mol |-> "none",
     deletes |-> 0, misused |-> FALSE, pending |-> [kind |-> "none"], result |-> [kind |-> "none"]]

NoFrame == [width |-> 0, height |-> 0, ox |-> 0, oy |-> 0]

Init ==
    /\ mb \in InputTexts
    /\ cfg \in Configs
    /\ pc = "parse"
    /\ err = "none"
    /\ mol = NoMol
    /\ labels = <<>>
    /\ s = <<0, 1>>
    /\ attempt = 0
    /\ pts = <<>>
    /\ frame = NoFrame
    /\ grid = <<>>
    /\ bi = 0
    /\ ai = 0
    /\ out = <<>>
    /\ heap = <<>>
    /\ drawers = <<>>
    /\ calls = <<>>
    /\ handler = NoRequest

\* line 545: parseV2000Molblock returns the molecule or throws
Parse ==
    /\ pc = "parse"
    /\ LET res == ParseV2000Molblock(mb)
       IN  IF res.err # "none"
           THEN /\ pc' = "error"
                /\ err' = res.err
                /\ mol' = mol
           ELSE /\ pc' = "scale"
                /\ err' = err
                /\ mol' = res.mol
    /\ UNCHANGED <<mb, cfg, labels, s, attempt, pts, frame, grid, bi, ai, out>>
    /\ UNCHANGED objects

\* lines 546-549: labels and the initial scale.  _initialScale destructures
\* pts[b.i] and pts[b.j] (line 612): an endpoint the molecule does not have is
\* undefined there, and the destructuring throws a TypeError
Prepare ==
    /\ pc = "scale"
    /\ labels' = Labels(mol, cfg)
    /\ IF \E k \in 1..Len(mol.bonds) : ~BondInRange(mol.bonds[k], Len(mol.coords))
       THEN /\ pc' = "error"
            /\ err' = "TypeError"
            /\ s' = s
       ELSE /\ pc' = "place"
            /\ err' = err
            /\ s' = InitialScale(mol.coords, mol.bonds, cfg)
    /\ UNCHANGED <<mb, cfg, mol, attempt, pts, frame, grid, bi, ai, out>>
    /\ UNCHANGED objects

\* the loop without its bound: after a conflict it always goes round again
AttemptUnbounded ==
    /\ pc = "place"
    /\ IF ~ScaleFits(s)
       THEN /\ pc' = "capped"
            /\ UNCHANGED <<pts, s, attempt>>
       ELSE LET placed == PlaceAtomsEvenGrid(mol.coords, s)
            IN  /\ pts' = placed
                /\ IF ~LabelsOverlap(placed, labels)
                   THEN /\ pc' = "frame"
                        /\ UNCHANGED <<s, attempt>>
                   ELSE /\ s' = RMul(s, cfg.scale_bump)
                        /\ attempt' = attempt + 1
                        /\ pc' = "place"
    /\ UNCHANGED <<mb, cfg, err, mol, labels, frame, grid, bi, ai, out>>
    /\ UNCHANGED objects

\* one iteration of the loop of lines 550-554
Attempt ==
    /\ pc = "place"
    /\ IF ~ScaleFits(s)
       THEN /\ pc' = "capped"
            /\ UNCHANGED <<pts, s, attempt>>
       ELSE LET placed == PlaceAtomsEvenGrid(mol.coords, s)
            IN  /\ pts' = placed
                /\ IF ~LabelsOverlap(placed, labels)
                   THEN /\ pc' = "frame"
                        /\ UNCHANGED <<s, attempt>>
                   ELSE /\ s' = RMul(s, cfg.scale_bump)
                        /\ attempt' = attempt + 1
                        /\ pc' = IF attempt + 1 <= cfg.max_bumps THEN "place" ELSE "frame"
    /\ UNCHANGED <<mb, cfg, err, mol, labels, frame, grid, bi, ai, out>>
    /\ UNCHANGED objects

\* what follows the allocation, and each drawing loop
AfterBonds == IF Len(pts) > 0 THEN "atoms" ELSE "trim"
AfterFrame == IF Len(mol.bonds) > 0 THEN "bonds" ELSE AfterBonds

\* lines 556-562: the extents and the blank grid
Allocate ==
    /\ pc = "frame"
    /\ LET fr == Frame(pts, labels, mol.bonds, cfg)
       IN  IF fr.width > MaxGridSide \/ fr.height > MaxGridSide
           THEN /\ pc' = "capped"
                /\ UNCHANGED <<frame, grid>>
           ELSE /\ frame' = fr
                /\ grid' = BlankGrid(fr.width, fr.height)
                /\ pc' = AfterFrame
    /\ UNCHANGED <<mb, cfg, err, mol, labels, s, attempt, pts, bi, ai, out>>
    /\ UNCHANGED objects

\* one iteration of the loop of lines 565-588
DrawBondStep ==
    /\ pc = "bonds"
    /\ grid' = DrawBond(grid, pts, mol.bonds[bi + 1], frame, cfg)
    /\ bi' = bi + 1
    /\ pc' = IF bi + 1 < Len(mol.bonds) THEN "bonds" ELSE AfterBonds
    /\ UNCHANGED <<mb, cfg, err, mol, labels, s, attempt, pts, frame, ai, out>>
    /\ UNCHANGED objects

\* one iteration of the loop of lines 591-596
DrawAtomStep ==
    /\ pc = "atoms"
    /\ grid' = DrawAtom(grid, pts[ai + 1], labels[ai + 1], frame)
    /\ ai' = ai + 1
    /\ pc' = IF ai + 1 < Len(pts) THEN "atoms" ELSE "trim"
    /\ UNCHANGED <<mb, cfg, err, mol, labels, s, attempt, pts, frame, bi, out>>
    /\ UNCHANGED objects

\* lines 598-601: trim and join
Finish ==
    /\ pc = "trim"
    /\ out' = JoinLines(OutputRows(grid))
    /\ pc' = "done"
    /\ UNCHANGED <<mb, cfg, err, mol, labels, s, attempt, pts, frame, grid, bi, ai>>
    /\ UNCHANGED objects

Next == Parse \/ Prepare \/ Attempt \/ Allocate \/ DrawBondStep \/ DrawAtomStep \/ Finish

Spec == Init /\ [][Next]_vars

-----------------------------------------------------------------------------
(* Several drawers and several calls.  A request handler runs
   new AsciiMolDrawer(...).drawMolblock(molblock) between two awaits, so a call
   runs to its end before another starts; the calls of different requests
   come in any order.  Objects live in heap and are named by their index. *)

MaxDrawers == 2
MaxCalls == 3

\* a second drawer object takes the table of the first
SharedCharSet(h) ==
    IF Len(h) = 0 THEN [heap |-> <<UnicodeCharSet>>, ref |-> 1] ELSE [heap |-> h, ref |-> 1]

\* new CharSet(): a new object with the field initialisers of lines 502-503
NewCharSet(h) == [heap |-> Append(h, UnicodeCharSet), ref |-> Len(h) + 1]

\* CharSet.ascii(), lines 504-509: a new object, its seven fields assigned
CharSetAscii(h) ==
    LET c == NewCharSet(h)
    IN  [heap |-> [c.heap EXCEPT ![c.ref] = AsciiCharSet], ref |-> c.ref]

CallConfigs == {DefaultConfig, AsciiConfig}

CallTexts ==
    { MolText(<<At(0, 0, <<"C">>), At(150, 0, <<"O">>)>>, <<Bd(1, 2, 2)>>, << <<2, -1>> >>),
      MolText(<<At(0, 0, <<"N">>), At(90, 120, <<"C", "l">>)>>, <<Bd(1, 2, 3)>>, <<>>) }

InitCalls ==
    /\ mb = <<>>
    /\ cfg = DefaultConfig
    /\ pc = "idle"
    /\ err = "none"
    /\ mol = NoMol
    /\ labels = <<>>
    /\ s = <<0, 1>>
    /\ attempt = 0
    /\ pts = <<>>
    /\ frame = NoFrame
    /\ grid = <<>>
    /\ bi = 0
    /\ ai = 0
    /\ out = <<>>
    /\ heap = <<>>
    /\ drawers = <<>>
    /\ calls = <<>>
    /\ handler = NoRequest

\* new AsciiMolDrawer(...), lines 534-542: the last parameter's default makes
\* the drawer's glyph table
NewDrawer ==
    /\ Len(drawers) < MaxDrawers
    /\ \E c \in CallConfigs :
          LET made == IF c.use_unicode THEN NewCharSet(heap) ELSE CharSetAscii(heap)
          IN  /\ heap' = made.heap
              /\ drawers' = Append(drawers, [cfg |-> c, cs |-> made.ref])
    /\ UNCHANGED <<call, calls, handler>>

\* drawer.drawMolblock(mb), lines 544-602: reads the drawer's fields and its
\* glyph table, assigns no field
DrawCall ==
    /\ Len(calls) < MaxCalls
    /\ \E d \in 1..Len(drawers), t \in CallTexts :
          calls' = Append(calls, [mb |-> t, drawer |-> d,
                                  res |-> DrawMolblockWith(t, drawers[d].cfg, heap[drawers[d].cs])])
    /\ UNCHANGED <<call, heap, drawers, handler>>

NextCalls == NewDrawer \/ DrawCall

SpecCalls == InitCalls /\ [][NextCalls]_vars

-----------------------------------------------------------------------------
(* The fetch handler, src/src/worker.ts 676-780, for one request.  handler.mol
   is the molecule object of RDKit.get_mol: "none" before there is one, "live",
   then "deleted"; every call of a method of the object goes through Use. *)

Formats == {"text", "svg", "png", "gif"}

\* what mol.get_molblock() may hand to drawMolblock: two molecules, and a block
\* drawMolblock throws on
HandlerTexts == CallTexts \cup {WithBondLine(Field3(1) \o Field3(5) \o Field3(1))}

Requests ==
    { [NoRequest EXCEPT !.pc = "limit", !.name = n, !.smi = m, !.echo = e, !.fmt = f] :
        n \in BOOLEAN, m \in BOOLEAN, e \in BOOLEAN, f \in Formats }

InitHandler ==
    /\ mb = <<>>
    /\ cfg = DefaultConfig
    /\ pc = "idle"
    /\ err = "none"
    /\ mol = NoMol
    /\ labels = <<>>
    /\ s = <<0, 1>>
    /\ attempt = 0
    /\ pts = <<>>
    /\ frame = NoFrame
    /\ grid = <<>>
    /\ bi = 0
    /\ ai = 0
    /\ out = <<>>
    /\ heap = <<>>
    /\ drawers = <<>>
    /\ calls = <<>>
    /\ handler \in Requests

\* a return outside the try statement: the handler's promise settles
Respond(h, kind) == [h EXCEPT !.pc = "settled", !.result = [kind |-> kind]]

\* a method of the molecule object is called
Use(h) == [h EXCEPT !.misused = h.misused \/ h.mol # "live"]

\* the try block left without its finally clause when it throws
LeaveWithoutFinally(h, outcome) ==
    IF outcome.kind = "error" THEN [h EXCEPT !.pc = "settled", !.result = outcome]
    ELSE [h EXCEPT !.pc = "finally", !.pending = outcome]

\* lines 734-779: a return or a throw inside the try block goes to the finally
\* clause with its completion pending
Leave(h, outcome) == [h EXCEPT !.pc = "finally", !.pending = outcome]

Thrown(at) == [kind |-> "error", at |-> at]

\* line 682: await env.PUBLIC_RL.limit
Limit ==
    /\ handler.pc = "limit"
    /\ \E success \in BOOLEAN :
          handler' = IF success THEN [handler EXCEPT !.pc = "params"] ELSE Respond(handler, "429")
    /\ UNCHANGED <<call, heap, drawers, calls>>

\* lines 690-704
Params ==
    /\ handler.pc = "params"
    /\ handler' = IF handler.name /\ handler.smi THEN Respond(handler, "422")
                  ELSE IF ~handler.smi /\ handler.name THEN [handler EXCEPT !.pc = "opsin"]
                  ELSE [handler EXCEPT !.pc = "rdkit"]
    /\ UNCHANGED <<call, heap, drawers, calls>>

\* lines 705-727: the name service answers with SMILES, or the handler returns 400
Opsin ==
    /\ handler.pc = "opsin"
    /\ \E answer \in {"smiles", "not ok", "no smiles", "throws"} :
          handler' = IF answer = "smiles" THEN [handler EXCEPT !.pc = "rdkit", !.smi = TRUE]
                     ELSE Respond(handler, "400")
    /\ UNCHANGED <<call, heap, drawers, calls>>

\* lines 730-735: await RDKitReady, which may reject; then RDKit.get_mol returns
\* an object or null
GetMol ==
    /\ handler.pc = "rdkit"
    /\ \E ready \in BOOLEAN, made \in BOOLEAN :
          handler' = IF ~ready THEN [handler EXCEPT !.pc = "settled", !.result = Thrown("loading")]
                     ELSE IF ~handler.smi THEN Respond(handler, "400")
                     ELSE IF made THEN [handler EXCEPT !.pc = "coords", !.mol = "live"]
                     ELSE Respond(handler, "400")
    /\ UNCHANGED <<call, heap, drawers, calls>>

\* lines 737-738: has_coords, set_new_coords, straighten_depiction
Coords ==
    /\ handler.pc = "coords"
    /\ \E throws \in BOOLEAN :
          handler' = IF throws THEN Leave(Use(handler), Thrown("depicting"))
                     ELSE [Use(handler) EXCEPT !.pc = "format"]
    /\ UNCHANGED <<call, heap, drawers, calls>>

\* line 743: the text body, the SMILES string standing as one token
Body(echoSmi, art) == IF echoSmi THEN <<"smi", "\n">> \o art \o <<"\n">> ELSE art \o <<"\n">>

\* lines 740-751: the text response
TextPath ==
    /\ handler.pc = "format" /\ handler.fmt = "text"
    /\ \E t \in HandlerTexts :
          \E art \in {DrawMolblock(t, DefaultConfig)} :
              handler' = IF art.status = "done"
                         THEN Leave(Use(handler), [kind |-> "text", body |-> Body(handler.echo, art.out)])
                         ELSE Leave(Use(handler), Thrown("rendering"))
    /\ UNCHANGED <<call, heap, drawers, calls>>

\* lines 753-766: drawSvgFromMol, and the SVG response
SvgPath ==
    /\ handler.pc = "format" /\ handler.fmt # "text"
    /\ \E throws \in BOOLEAN :
          handler' = IF throws THEN Leave(Use(handler), Thrown("drawing"))
                     ELSE IF handler.fmt = "svg" THEN Leave(Use(handler), [kind |-> "svg"])
                     ELSE [Use(handler) EXCEPT !.pc = "raster"]
    /\ UNCHANGED <<call, heap, drawers, calls>>

\* lines 768-776: await svgToPng, and the PNG response
Raster ==
    /\ handler.pc = "raster"
    /\ \E rejects \in BOOLEAN :
          handler' = IF rejects THEN Leave(handler, Thrown("rasterizing"))
                     ELSE Leave(handler, [kind |-> "png"])
    /\ UNCHANGED <<call, heap, drawers, calls>>

\* lines 777-779: mol.delete(), then the pending completion
Finally ==
    /\ handler.pc = "finally"
    /\ handler' = [handler EXCEPT !.mol = "deleted", !.deletes = handler.deletes + 1,
                                   !.pc = "settled", !.result = handler.pending]
    /\ UNCHANGED <<call, heap, drawers, calls>>

NextHandler == Limit \/ Params \/ Opsin \/ GetMol \/ Coords \/ TextPath \/ SvgPath \/ Raster \/ Finally

SpecHandler == InitHandler /\ [][NextHandler]_vars

-----------------------------------------------------------------------------
(* Properties of the composed grid *)

\* the grid holds every bond and every atom of the call
Composed == pc \in {"trim", "done"}

\* grid row of atom k, and the grid columns of its label footprint:
\* x - floor(len/2) .. x - floor(len/2) + len - 1, shifted by the frame's origin
FootRow(k) == pts[k][2] + frame.oy
FootFirst(k) == pts[k][1] - (Len(labels[k]) \div 2) + frame.ox
FootLast(k) == FootFirst(k) + Len(labels[k]) - 1

InFootprint(k, r, c) == r = FootRow(k) /\ FootFirst(k) <= c /\ c <= FootLast(k)

\* the footprints of atoms j and k share a cell
FootprintsMeet(j, k) ==
    FootRow(j) = FootRow(k) /\ FootFirst(j) <= FootLast(k) /\ FootFirst(k) <= FootLast(j)

\* the atom whose label is written last over cell (r, c)
LastAtomOver(r, c) ==
    CHOOSE k \in 1..Len(pts) : InFootprint(k, r, c) /\ \A j \in (k + 1)..Len(pts) : ~InFootprint(j, r, c)

\* the character of atom k's label that falls on column c
LabelCharAt(k, c) == labels[k][c - FootFirst(k) + 1]

\* characters the bond pass can leave in a cell: the charset's glyphs and the junction
BondGlyphs == {CharSetOf(cfg)[f] : f \in DOMAIN CharSetOf(cfg)} \cup {JunctionChar(UseUnicode(cfg))}

\* the grid cell a bond's first line-write targets
BondCellRow(b) == MidY(pts, b) + frame.oy
BondCellCol(b) == MidX(pts, b) + frame.ox

\* C1 as stated: after the bond pass and the atom pass, no cell inside an atom's
\* label footprint holds a bond glyph or a junction glyph.  A label is the symbol
\* followed by the charge ("+", "-", digits): with the 7-bit charset "-" is the
\* single-bond glyph and "+" the junction glyph, and the label of a charged atom
\* puts them in its own footprint.
C1_NoGlyphInFootprint ==
    Composed =>
        \A k \in 1..Len(pts) : \A c \in FootFirst(k)..FootLast(k) :
            OffGrid(grid, FootRow(k), c) \/ grid[FootRow(k) + 1][c + 1] \notin BondGlyphs

\* C1, amended: after the bond pass and the atom pass, every grid cell inside an
\* atom's label footprint holds the label character written there by the last
\* atom whose footprint covers it, whatever line-writes went to the cell: an atom
\* write always wins over a line write to the same cell.  With a padding of 0 or
\* more every footprint cell is a grid cell.
C1_AtomWriteWins ==
    Composed =>
        \A k \in 1..Len(pts) : \A c \in FootFirst(k)..FootLast(k) :
            /\ cfg.pad >= 0 => ~OffGrid(grid, FootRow(k), c)
            /\ \/ OffGrid(grid, FootRow(k), c)
               \/ grid[FootRow(k) + 1][c + 1] = LabelCharAt(LastAtomOver(FootRow(k), c), c)

\* a finished call in which a bond's line-write went to a cell of an atom's
\* footprint, and the cell holds the atom's character
C1_Witness ==
    /\ pc = "done"
    /\ cfg.pad >= 0
    /\ \E n \in 1..Len(mol.bonds) : \E k \in 1..Len(pts) :
        /\ InFootprint(k, BondCellRow(mol.bonds[n]), BondCellCol(mol.bonds[n]))
        /\ grid[BondCellRow(mol.bonds[n]) + 1][BondCellCol(mol.bonds[n]) + 1] \notin BondGlyphs

\* C2 as stated: for every atom, the final grid holds the atom's complete label
\* on its row y, in the columns x - floor(len/2) .. x - floor(len/2) + len - 1.
C2_EveryLabelComplete ==
    Composed =>
        \A k \in 1..Len(pts) : \A c \in FootFirst(k)..FootLast(k) :
            ~OffGrid(grid, FootRow(k), c) /\ grid[FootRow(k) + 1][c + 1] = LabelCharAt(k, c)

\* C2, amended: with a padding of 0 or more, for every atom whose footprint meets
\* the footprint of no atom drawn after it, the final grid holds the atom's
\* complete label on its row y, in the columns x - floor(len/2) ..
\* x - floor(len/2) + len - 1.  (Placements that leave two labels on the same
\* cells are accepted, and the later atom's label is then the one the grid
\* shows; a negative padding cuts the outer cells off the grid.)
C2_UncoveredLabelComplete ==
    (Composed /\ cfg.pad >= 0) =>
        \A k \in 1..Len(pts) :
            (\A j \in (k + 1)..Len(pts) : ~FootprintsMeet(j, k)) =>
                \A c \in FootFirst(k)..FootLast(k) :
                    /\ ~OffGrid(grid, FootRow(k), c)
                    /\ grid[FootRow(k) + 1][c + 1] = LabelCharAt(k, c)

\* a finished call with a label of two or more characters that no later atom
\* meets, written over the cells of an earlier atom's different label
C2_Witness ==
    /\ pc = "done"
    /\ cfg.pad >= 0
    /\ \E k \in 1..Len(pts) : \E i \in 1..(k - 1) :
        /\ Len(labels[k]) >= 2
        /\ \A j \in (k + 1)..Len(pts) : ~FootprintsMeet(j, k)
        /\ FootprintsMeet(i, k)
        /\ labels[i] # labels[k]

\* the placements of the two atoms of bond b
PlacedApart(b) ==
    \/ Abs(pts[b.i + 1][1] - pts[b.j + 1][1]) >= 2
    \/ Abs(pts[b.i + 1][2] - pts[b.j + 1][2]) >= 2

\* C3 as stated: for every bond (i, j) of a rendered molecule, the placements of
\* atoms i and j differ by at least 2 grid units in x or in y.
C3_BondedAtomsApart ==
    pc = "done" => \A n \in 1..Len(mol.bonds) : PlacedApart(mol.bonds[n])

\* C3, amended: for every bond (i, j) of a rendered molecule, the placements of
\* atoms i and j are the same grid point, or differ by at least 2 grid units in
\* x or in y: bonded atoms are never on adjacent cells, but a bond much shorter
\* than the average (or between atoms with the same coordinates) puts both atoms
\* and the bond glyph on one cell.
C3_BondedAtomsApartOrTogether ==
    pc = "done" =>
        \A n \in 1..Len(mol.bonds) :
            pts[mol.bonds[n].i + 1] = pts[mol.bonds[n].j + 1] \/ PlacedApart(mol.bonds[n])

\* a finished call with a bond between two atoms of different coordinates that
\* are placed on the same grid point, and another bond whose atoms are apart
C3_Witness ==
    /\ pc = "done"
    /\ \E n \in 1..Len(mol.bonds) :
        /\ mol.coords[mol.bonds[n].i + 1] # mol.coords[mol.bonds[n].j + 1]
        /\ pts[mol.bonds[n].i + 1] = pts[mol.bonds[n].j + 1]
    /\ \E n \in 1..Len(mol.bonds) : PlacedApart(mol.bonds[n])

-----------------------------------------------------------------------------
(* Properties of the call's outcome *)

\* the three failures of the parser, stated of the input text
InputLines == SplitLines(mb)
TooShort == Len(InputLines) < 4
CarriesV3000 == HasV3000(InputLines)
CountsUnreadable == ReadCounts(LineAt(InputLines, 3)) = <<>>

\* C4 as stated: drawMolblock raises an error if and only if the input has fewer
\* than 4 lines, carries the extended-table marker, or has an unreadable counts
\* line; every other input, out-of-range bond endpoints included, is rendered.
\* (The marker is taken as the parser's own guard takes it.)
C4_ErrorIffInputFormat ==
    pc \in {"error", "done"} => (pc = "error" <=> (TooShort \/ CarriesV3000 \/ CountsUnreadable))

\* a call that ends in the TypeError of _initialScale: the text parses, and a
\* bond names an atom the molecule does not have
C4_Witness ==
    /\ pc = "error"
    /\ err = "TypeError"
    /\ ~(TooShort \/ CarriesV3000 \/ CountsUnreadable)
    /\ \E n \in 1..Len(mol.bonds) : ~BondInRange(mol.bonds[n], Len(mol.coords))

\* the rows of the returned text, and the grid rows that are not blank
OutRows == SplitFrom(out, 1)
InkRows == {r \in 1..Len(grid) : ~IsBlank(grid[r])}
FirstInk == CHOOSE r \in InkRows : \A q \in InkRows : r <= q
LastInk == CHOOSE r \in InkRows : \A q \in InkRows : r >= q

\* C5: for every input rendered without error, the returned text has no blank or
\* empty first row, no blank or empty last row and no row that ends in a
\* whitespace character, and consecutive rows are separated by exactly one
\* newline: the text has one row for each grid row from the first to the last
\* non-blank one.  A grid with no non-blank row gives the empty text, which has
\* no row.
C5_TextTrimmed ==
    pc = "done" =>
        IF InkRows = {} THEN out = <<>>
        ELSE /\ ~IsBlank(OutRows[1])
             /\ ~IsBlank(OutRows[Len(OutRows)])
             /\ \A r \in 1..Len(OutRows) :
                    OutRows[r] = <<>> \/ ~IsSpace(OutRows[r][Len(OutRows[r])])
             /\ Len(OutRows) = LastInk - FirstInk + 1

\* a finished call whose grid had blank rows above and below the drawing and
\* blanks to the right of it, and whose text has more than one row
C5_Witness ==
    /\ pc = "done"
    /\ Len(grid) >= 3
    /\ IsBlank(grid[1])
    /\ IsBlank(grid[Len(grid)])
    /\ \E r \in InkRows : grid[r][Len(grid[r])] = " "
    /\ Len(OutRows) >= 2

\* the molecule is exactly two uncharged carbon atoms joined by one order-1 bond
TwoCarbonsOneBond ==
    /\ Len(mol.symbols) = 2
    /\ \A k \in 1..2 : ToLowerCase(mol.symbols[k]) = <<"c">> /\ mol.charges[k] = 0
    /\ Len(mol.bonds) = 1
    /\ mol.bonds[1].order = 1
    /\ {mol.bonds[1].i, mol.bonds[1].j} = {0, 1}

DefaultConfigs == {DefaultConfig, AsciiConfig}

\* the two atoms are placed on one grid row, two columns apart
SideBySide == pts[1][2] = pts[2][2] /\ Abs(pts[1][1] - pts[2][1]) = 2

\* C6 as stated: two uncharged carbon atoms joined by one order-1 bond, default
\* configuration: the result is exactly the one row C, single-bond glyph, C.
C6_TwoCarbonsExactly ==
    (pc = "done" /\ TwoCarbonsOneBond /\ cfg \in DefaultConfigs) =>
        out = <<"C", CharSetOf(cfg).h_single, "C">>

\* C6, amended: two uncharged carbon atoms joined by one order-1 bond that the
\* layout places on one grid row two columns apart (the placement of two atoms
\* on a horizontal line), default configuration: the result is exactly one row,
\* the two blanks of the left padding followed by C, the single-bond glyph of
\* the charset, C.
C6_TwoCarbonsSideBySide ==
    (pc = "done" /\ TwoCarbonsOneBond /\ SideBySide /\ cfg \in DefaultConfigs) =>
        out = Spaces(DefaultPad) \o <<"C", CharSetOf(cfg).h_single, "C">>

\* a finished call with the 7-bit charset for two carbons on a horizontal
\* line, the second 1.5 to the right of the first
C6_Witness ==
    /\ pc = "done"
    /\ TwoCarbonsOneBond
    /\ mol.coords = << <<<<0, 1>>, <<0, 1>>>>, <<<<3, 2>>, <<0, 1>>>> >>
    /\ SideBySide
    /\ cfg = AsciiConfig
    /\ out = <<" ", " ", "C", "-", "C">>

-----------------------------------------------------------------------------
(* Properties that compare two calls *)

\* width (length of the longest row) and height (number of rows) of a text
RECURSIVE LongestRow(_, _)
LongestRow(rows, k) == IF k = 0 THEN 0 ELSE Max(LongestRow(rows, k - 1), Len(rows[k]))
TextWidth(t) == LongestRow(SplitFrom(t, 1), Len(SplitFrom(t, 1)))
TextHeight(t) == IF t = <<>> THEN 0 ELSE Len(SplitFrom(t, 1))

RLess(a, b) == a[1] * b[2] < b[1] * a[2]

\* the text of the other call is at least as wide and as high as this call's
NoSmallerWith(c2) ==
    LET r2 == DrawMolblock(mb, c2)
    IN  r2.status = "done" =>
            TextWidth(r2.out) >= TextWidth(out) /\ TextHeight(r2.out) >= TextHeight(out)

\* C7 as stated: for a fixed input and otherwise fixed configuration, a larger
\* scale bump factor, or a larger padding, gives output at least as wide and at
\* least as high.
C7_BumpOrPadMonotone ==
    pc = "done" =>
        /\ \A b \in BumpValues : RLess(cfg.scale_bump, b) => NoSmallerWith([cfg EXCEPT !.scale_bump = b])
        /\ \A p \in PadValues : cfg.pad < p => NoSmallerWith([cfg EXCEPT !.pad = p])

\* C7, amended: for a fixed input and otherwise fixed configuration, a larger
\* padding (both paddings integers) gives output at least as wide and at least
\* as high.  (A larger scale bump factor can end the retry loop at a
\* placement with fewer rows or shorter rows.)
C7_PadMonotone ==
    pc = "done" =>
        \A p \in PadValues : cfg.pad < p => NoSmallerWith([cfg EXCEPT !.pad = p])

\* a finished call without padding whose text is not empty, and the same input
\* rendered with the largest padding is strictly wider
C7_Witness ==
    /\ pc = "done"
    /\ cfg.pad = 0
    /\ out # <<>>
    /\ LET r2 == DrawMolblock(mb, [cfg EXCEPT !.pad = DefaultPad + 1])
       IN  r2.status = "done" /\ TextWidth(r2.out) > TextWidth(out)

\* the molecule with the order of bond n replaced
WithOrder(n, order) == [mol EXCEPT !.bonds[n].order = order]

\* C8: rendering a molecule in which a bond has declared order 4 gives output
\* identical to rendering the same molecule with that bond's order replaced by
\* 2, for every bond geometry.
C8_Order4AsOrder2 ==
    pc = "done" =>
        \A n \in 1..Len(mol.bonds) :
            mol.bonds[n].order = 4 =>
                RenderMol(WithOrder(n, 2), cfg) = [status |-> "done", err |-> "none", out |-> out]

\* a finished call with a diagonal bond of declared order 4, drawn with two glyphs
C8_Witness ==
    /\ pc = "done"
    /\ \E n \in 1..Len(mol.bonds) :
        /\ mol.bonds[n].order = 4
        /\ IsDiag(pts, mol.bonds[n])
        /\ \E r \in 1..Len(grid) : \E c \in 1..(Len(grid[r]) - 1) :
            grid[r][c] \in {"U2571", "U2572"} /\ grid[r][c + 1] = grid[r][c]

-----------------------------------------------------------------------------
(* Properties of the parser *)

Parsed == pc # "parse"

UnsupportedVersion == pc = "error" /\ err = "V3000 molblock not supported" /\ out = <<>>

\* C9 as stated: the parser fails with the unsupported-version error whenever
\* the 4th line contains V3000 or any line contains "M  V30", and the render
\* then produces no output.
C9_MarkerAnywhere ==
    LET lines == InputLines
    IN  (/\ Parsed
         /\ \/ Includes(LineAt(lines, 3), MarkerV3000)
            \/ \E k \in 1..Len(lines) : Includes(lines[k], MarkerV30))
        => UnsupportedVersion

\* C9, amended: when the input has at least 4 lines, the parser fails with the
\* unsupported-version error whenever the 4th line contains V3000 in any letter
\* case or any line begins with "M  V30", and the render then produces no
\* output.  (An input of fewer than 4 lines fails as too short; "M  V30" further
\* into a line is not taken as the marker.)
C9_MarkerWhereLookedFor ==
    LET lines == InputLines
    IN  (/\ Parsed
         /\ Len(lines) >= 4
         /\ \/ Includes(ToUpperCase(LineAt(lines, 3)), MarkerV3000)
            \/ \E k \in 1..Len(lines) : StartsWith(lines[k], MarkerV30))
        => UnsupportedVersion

\* a call that failed as unsupported for a line that begins with "M  V30" under
\* a counts line without V3000
C9_Witness ==
    LET lines == InputLines
    IN  /\ UnsupportedVersion
        /\ ~Includes(ToUpperCase(LineAt(lines, 3)), MarkerV3000)
        /\ \E k \in 5..Len(lines) : StartsWith(lines[k], MarkerV30)

\* the integers of columns 0-3 and 3-6 of a counts line
Column0to3(c) == ParseInt(Slice(c, 0, 3))
Column3to6(c) == ParseInt(Slice(c, 3, 6))
ColumnsFinite(c) == ~Column0to3(c).nan /\ ~Column3to6(c).nan

\* the parser threw msg; the parser returned a molecule read with these counts
ParserErrors == {"Molblock too short", "V3000 molblock not supported", "Invalid counts line"}
ParseFailed(msg) == pc = "error" /\ err = msg
ParseGave(na, nb) == err \notin ParserErrors /\ mol.na = na /\ mol.nb = nb

\* C10 as stated: the counts are the integers of columns 0-3 and 3-6 of line 4
\* when both are finite, otherwise the two integers the tolerant pattern matches
\* at the start of the line; if the pattern fails too, the parse fails with the
\* invalid-counts error.  The molecule has exactly atomCount atoms and bondCount
\* bonds.
C10_CountsAsStated ==
    LET lines == InputLines
        c == LineAt(lines, 3)
        m == MatchCounts(c)
    IN  (Parsed /\ Len(lines) >= 4 /\ ~HasV3000(lines)) =>
            /\ IF ColumnsFinite(c) THEN ParseGave(Column0to3(c).v, Column3to6(c).v)
               ELSE IF m # <<>> THEN ParseGave(m[1], m[2])
               ELSE ParseFailed("Invalid counts line")
            /\ err \notin ParserErrors => Len(mol.coords) = mol.na /\ Len(mol.bonds) = mol.nb

\* C10, amended: the counts are the integers of columns 0-3 and 3-6 of line 4
\* when the line has at least 6 characters and both are finite, otherwise the
\* two integers the tolerant pattern matches at the start of the line; if the
\* pattern fails too, the parse fails with the invalid-counts error.  The
\* molecule has max(atomCount, 0) atoms (coordinates, symbols and charges) and
\* max(bondCount, 0) bonds: a negative count is accepted and gives none.
C10_CountsAsRead ==
    LET lines == InputLines
        c == LineAt(lines, 3)
        m == MatchCounts(c)
    IN  (Parsed /\ Len(lines) >= 4 /\ ~HasV3000(lines)) =>
            /\ IF Len(c) >= 6 /\ ColumnsFinite(c) THEN ParseGave(Column0to3(c).v, Column3to6(c).v)
               ELSE IF m # <<>> THEN ParseGave(m[1], m[2])
               ELSE ParseFailed("Invalid counts line")
            /\ err \notin ParserErrors =>
                /\ Len(mol.coords) = Max(mol.na, 0)
                /\ Len(mol.symbols) = Max(mol.na, 0)
                /\ Len(mol.charges) = Max(mol.na, 0)
                /\ Len(mol.bonds) = Max(mol.nb, 0)

\* a parse that took the counts from the tolerant pattern: the line is long
\* enough for the columns, columns 0-3 hold no number, and the pattern gives
\* 2 atoms and 1 bond
C10_Witness ==
    /\ Parsed
    /\ err = "none"
    /\ LET c == LineAt(InputLines, 3)
       IN  Len(c) >= 6 /\ Column0to3(c).nan /\ MatchCounts(c) = <<2, 1>>
    /\ mol.na = 2 /\ mol.nb = 1
    /\ Len(mol.coords) = 2 /\ Len(mol.bonds) = 1

-----------------------------------------------------------------------------
(* Properties of several calls *)

SameCharSet(d, e) == drawers[d].cfg.use_unicode = drawers[e].cfg.use_unicode

\* C11: what a call returns depends on its text and its drawer's configuration
\* only: two calls with the same text and the same configuration return the
\* same string whatever drawers were made and whatever calls returned in
\* between, and no drawer's glyph table changes once the drawer is made.
C11_CallsIndependent ==
    /\ \A k \in 1..Len(calls), l \in 1..Len(calls) :
          (/\ calls[k].mb = calls[l].mb
           /\ drawers[calls[k].drawer].cfg = drawers[calls[l].drawer].cfg)
          => calls[k].res = calls[l].res
    /\ \A d \in 1..Len(drawers) :
          heap[drawers[d].cs] = CharSetOf(drawers[d].cfg)

\* the same text drawn twice by a drawer, another text drawn in between by a
\* drawer of the other glyph table that was made after the first call
C11_Witness ==
    /\ Len(calls) = 3 /\ Len(drawers) = 2
    /\ calls[1].mb = calls[3].mb /\ calls[1].drawer = 1 /\ calls[3].drawer = 1
    /\ calls[2].drawer = 2 /\ calls[2].mb # calls[1].mb
    /\ ~SameCharSet(1, 2)
    /\ \A k \in 1..3 : calls[k].res.status = "done" /\ Len(calls[k].res.out) > 0
    /\ calls[1].res.out # calls[2].res.out

-----------------------------------------------------------------------------
(* Properties of the labels *)

\* line 546 has run
LabelsMade == pc \in {"place", "frame", "bonds", "atoms", "trim", "done", "capped"} \/ err = "TypeError"

ShownSymbol(sym) == IF sym = <<"c">> THEN <<"C">> ELSE sym

ChargeSuffix(q) ==
    CASE q = 0 -> <<>>
      [] q = 1 -> <<"+">>
      [] q = -1 -> <<"-">>
      [] q > 1 -> <<"+">> \o DecimalOf(q)
      [] q < -1 -> <<"-">> \o DecimalOf(-q)

\* C12: the label of an atom is its symbol, a lone "c" written "C" and every
\* other symbol as it is, followed by nothing when the charge is 0 or charges
\* are not shown, by the bare sign when the charge is +1 or -1, and by the sign
\* and the magnitude otherwise.
C12_LabelOfAtom ==
    LabelsMade =>
        /\ Len(labels) = Len(mol.symbols)
        /\ \A k \in 1..Len(labels) :
              labels[k] = ShownSymbol(mol.symbols[k])
                          \o (IF cfg.show_formal_charge THEN ChargeSuffix(mol.charges[k]) ELSE <<>>)

\* "N" with charge +1 next to "O" with charge -2, charges shown
C12_Witness ==
    /\ pc = "done" /\ cfg.show_formal_charge /\ Len(labels) = 2
    /\ mol.symbols[1] = <<"N">> /\ mol.charges[1] = 1 /\ labels[1] = <<"N", "+">>
    /\ mol.symbols[2] = <<"O">> /\ mol.charges[2] = -2 /\ labels[2] = <<"O", "-", "2">>

-----------------------------------------------------------------------------
(* Properties of the parsed records *)

AtomLineOf(lines, k) == LineAt(lines, 3 + k)
BondLineOf(lines, k) == LineAt(lines, 3 + mol.na + k)

\* C13: once the structural checks have passed the parser does not fail: each
\* atom and each bond is read from its own line; an unreadable x or y is 0, an
\* unreadable atom number of a bond is atom index 0, an unreadable order is 1, a
\* blank symbol is "C", and every readable field has its value.
C13_FieldDefaults ==
    LET lines == InputLines
    IN  (Parsed /\ ~TooShort /\ ~HasV3000(lines) /\ ReadCounts(LineAt(lines, 3)) # <<>>) =>
        /\ err \notin ParserErrors
        /\ \A k \in 1..Len(mol.coords) :
              LET ln == AtomLineOf(lines, k)
                  x == ParseFloat(Slice(ln, 0, 10))
                  y == ParseFloat(Slice(ln, 10, 20))
                  sym == Trim(Slice(ln, 31, 34))
              IN  /\ mol.coords[k][1] = (IF x.nan THEN <<0, 1>> ELSE x.v)
                  /\ mol.coords[k][2] = (IF y.nan THEN <<0, 1>> ELSE y.v)
                  /\ mol.symbols[k] = (IF sym = <<>> THEN <<"C">> ELSE sym)
        /\ \A k \in 1..Len(mol.bonds) :
              LET ln == BondLineOf(lines, k)
                  i == ParseInt(Slice(ln, 0, 3))
                  j == ParseInt(Slice(ln, 3, 6))
                  order == ParseInt(Slice(ln, 6, 9))
              IN  /\ IF i.nan THEN mol.bonds[k].i = 0 ELSE (i.v # 0 => mol.bonds[k].i = i.v - 1)
                  /\ IF j.nan THEN mol.bonds[k].j = 0 ELSE (j.v # 0 => mol.bonds[k].j = j.v - 1)
                  /\ IF order.nan THEN mol.bonds[k].order = 1
                     ELSE (order.v # 0 => mol.bonds[k].order = order.v)

\* a bond whose first atom number is unreadable, drawn from atom 0 to atom 1
C13_Witness ==
    /\ pc = "done" /\ Len(mol.bonds) = 1 /\ Len(mol.coords) = 2
    /\ LET lines == InputLines
       IN  /\ ParseInt(Slice(BondLineOf(lines, 1), 0, 3)).nan
           /\ Slice(BondLineOf(lines, 1), 0, 3) # <<>>
           /\ mol.bonds[1].i = 0 /\ mol.bonds[1].j = 1
           /\ Len(out) > 0

-----------------------------------------------------------------------------
(* Properties of the layout *)

SpanFirst(k) == pts[k][1] - (Len(labels[k]) \div 2)
SpanLast(k) == SpanFirst(k) + Len(labels[k]) - 1

\* the spans of atoms i and j share a column or lie side by side
SpansMeet(i, j) == SpanFirst(i) <= SpanLast(j) + 1 /\ SpanFirst(j) <= SpanLast(i) + 1

\* C14: the label-overlap test is true exactly when two atoms of the same grid
\* row have label spans [x - floor(len/2), x - floor(len/2) + len - 1] that
\* intersect or are adjacent with no empty column between them, and false in
\* every other case.
C14_OverlapIffSpansMeet ==
    LabelsMade =>
        (LabelsOverlap(pts, labels)
         <=> \E i \in 1..Len(pts), j \in 1..Len(pts) :
               i # j /\ pts[i][2] = pts[j][2] /\ SpansMeet(i, j))

\* two one-character labels placed on the same cell, the test false at the
\* first attempt, and the text returned
C14_Witness ==
    /\ pc = "done" /\ attempt = 0 /\ Len(pts) = 2
    /\ pts[1] = pts[2]
    /\ Len(labels[1]) = 1 /\ Len(labels[2]) = 1
    /\ ~LabelsOverlap(pts, labels)

\* the scale of attempt k: the initial scale multiplied k times by scale_bump
RECURSIVE ScaleOfAttempt(_)
ScaleOfAttempt(k) ==
    IF k = 0 THEN InitialScale(mol.coords, mol.bonds, cfg)
    ELSE RMul(ScaleOfAttempt(k - 1), cfg.scale_bump)

PlacementOfAttempt(k) == PlaceAtomsEvenGrid(mol.coords, ScaleOfAttempt(k))

InLoop == pc = "place"
LoopLeft == pc \in {"frame", "bonds", "atoms", "trim", "done"}

\* attempt counts the conflicts found so far: the attempts made are 0..attempt-1
\* and, when the loop ended without a conflict, attempt itself
RetryLoopState ==
    /\ InLoop => /\ attempt <= cfg.max_bumps
                 /\ s = ScaleOfAttempt(attempt)
                 /\ \A k \in 0..(attempt - 1) : LabelsOverlap(PlacementOfAttempt(k), labels)
                 /\ attempt > 0 => pts = PlacementOfAttempt(attempt - 1)
    /\ LoopLeft =>
          LET last == IF attempt > cfg.max_bumps THEN cfg.max_bumps ELSE attempt
          IN  /\ attempt <= cfg.max_bumps + 1
              /\ pts = PlacementOfAttempt(last)
              /\ \A k \in 0..(last - 1) : LabelsOverlap(PlacementOfAttempt(k), labels)
              /\ LabelsOverlap(pts, labels) <=> attempt > cfg.max_bumps

\* C15: the retry loop ends after at most max_bumps + 1 placements: every
\* iteration leaves the loop or counts one more conflict, and the count never
\* passes max_bumps inside the loop.  The first placement is made at the initial
\* scale, each conflict is followed by a placement at the scale times
\* scale_bump, at most max_bumps times; the loop stops at the first placement
\* without conflict, and when every placement conflicts the last one is kept
\* and the call goes on to its text.
C15_RetryLoopEnds ==
    /\ []RetryLoopState
    /\ [][InLoop => (pc' # "place" \/ attempt' = attempt + 1)]_vars
    /\ [][(LoopLeft /\ pc # "done") => (pc' \in {"bonds", "atoms", "trim", "done", "capped"} /\ pts' = pts)]_vars

\* every attempt conflicted, more than one was made, and the text is returned
C15_Witness ==
    /\ pc = "done" /\ cfg.max_bumps > 0 /\ attempt = cfg.max_bumps + 1
    /\ LabelsOverlap(pts, labels)
    /\ Len(out) > 0

-----------------------------------------------------------------------------
(* Properties of the writes *)

GridMade == pc \in {"bonds", "atoms", "trim", "done"}

\* the glyphs a bond is drawn with in the drawer's glyph table
StrokeGlyphs == {CharSetOf(cfg)[f] : f \in DOMAIN CharSetOf(cfg)}

\* the line class: the strokes and junctions of both glyph tables
LineClass ==
    {"-", "|", "\\", "/", "=", "#", "+",
     "U2500", "U2502", "U2571", "U2572", "U2550", "U2551", "U2261", "U253C"}

Junction == IF cfg.use_unicode THEN "U253C" ELSE "+"

\* what a line-write of ch leaves in a cell that held x
AfterLineWrite(x, ch) ==
    IF x = " " THEN ch ELSE IF x \in LineClass THEN Junction ELSE x

\* C16: a line-write of a stroke glyph to a blank cell stores the glyph; to a
\* cell holding a line-class glyph, the same glyph included, it stores the
\* junction glyph of the drawer's glyph table; to a cell holding anything else,
\* or to a place outside the grid, it changes nothing; no other cell changes.
C16_LineWrite ==
    GridMade =>
        \A r \in -1..GridHeight(grid), ch \in StrokeGlyphs :
          \A c \in -1..(IF GridHeight(grid) > 0 THEN GridWidth(grid) ELSE 1) :
            LET after == SetLine(grid, r, c, ch, UseUnicode(cfg))
            IN  IF OffGrid(grid, r, c) THEN after = grid
                ELSE /\ after[r + 1][c + 1] = AfterLineWrite(grid[r + 1][c + 1], ch)
                     /\ after = [grid EXCEPT ![r + 1][c + 1] = after[r + 1][c + 1]]

\* the second of two bonds between the same atoms is about to be drawn with
\* the glyph the first one left at the midpoint, and makes a junction of it
C16_Witness ==
    /\ pc = "bonds" /\ bi > 0
    /\ LET b == mol.bonds[bi + 1]
           r == BondCellRow(b)
           c == BondCellCol(b)
           ch == BondChar(pts[b.i + 1], pts[b.j + 1], DisplayOrder(b.order), CharSetOf(cfg))
       IN  /\ ~OffGrid(grid, r, c)
           /\ grid[r + 1][c + 1] = ch
           /\ SetLine(grid, r, c, ch, UseUnicode(cfg))[r + 1][c + 1] = Junction

\* the bond the next iteration of the bond loop draws
NextBond == mol.bonds[bi + 1]

Diagonal(b) == pts[b.i + 1][1] # pts[b.j + 1][1] /\ pts[b.i + 1][2] # pts[b.j + 1][2]

\* the side the orientation selects: +1 for the glyph "/", -1 for "\"
Side(b) ==
    IF (pts[b.j + 1][1] - pts[b.i + 1][1]) * (pts[b.j + 1][2] - pts[b.i + 1][2]) < 0 THEN 1 ELSE -1

\* the glyph of a bond of display order n
GlyphOf(b, n) == BondChar(pts[b.i + 1], pts[b.j + 1], n, CharSetOf(cfg))

\* line-writes of glyph ch to the cells of a sequence, in order
RECURSIVE LineWrites(_, _, _)
LineWrites(g, cells, ch) ==
    IF Len(cells) = 0 THEN g
    ELSE LineWrites(SetLine(g, cells[1][1], cells[1][2], ch, UseUnicode(cfg)), Tail(cells), ch)

\* the extra line-writes of a bond, the second extra stroke of a diagonal
\* triple bond being rowsUp rows above the midpoint
ExtraCells(b, rowsUp) ==
    LET r == BondCellRow(b)
        c == BondCellCol(b)
        n == IF b.order = 4 THEN 2 ELSE b.order
    IN  IF ~Diagonal(b) \/ n < 2 THEN <<>>
        ELSE IF n = 2 THEN << <<r, c + Side(b)>> >>
        ELSE << <<r, c + Side(b)>>, <<r - rowsUp, c - Side(b)>> >>

BondStepWrites(rowsUp) ==
    (pc = "bonds" /\ (~Diagonal(NextBond) \/ NextBond.order \in {1, 2, 3, 4})) =>
        grid' = LineWrites(grid,
                           << <<BondCellRow(NextBond), BondCellCol(NextBond)>> >>
                           \o ExtraCells(NextBond, rowsUp),
                           GlyphOf(NextBond, IF NextBond.order = 4 THEN 2 ELSE NextBond.order))

\* C17 as stated: after the midpoint glyph a diagonal bond of display order 2
\* gets exactly one extra line-write and one of display order 3 exactly two,
\* each in the midpoint's own row one column from the midpoint: the double
\* bond's on the side the orientation selects, the triple bond's on both sides;
\* bonds of order 1 and bonds that are not diagonal get none.
C17_ExtrasInMidpointRow == [][BondStepWrites(0)]_vars

\* C17 amended: as stated, except that the second extra glyph of a diagonal
\* triple bond is written one row above the midpoint's row, one column from the
\* midpoint on the side opposite to the first extra glyph.
C17_ThirdStrokeRowAbove == [][BondStepWrites(1)]_vars

\* a diagonal triple bond drawn on blank cells: its glyph at the midpoint, next
\* to it on the orientation's side, and one row up on the other side
C17_Witness ==
    /\ pc = "atoms" /\ bi = 1 /\ Len(mol.bonds) = 1
    /\ LET b == mol.bonds[1]
           r == BondCellRow(b)
           c == BondCellCol(b)
       IN  /\ Diagonal(b) /\ b.order = 3
           /\ ~OffGrid(grid, r - 1, c - 1) /\ ~OffGrid(grid, r, c + 1)
           /\ grid[r + 1][c + 1] = GlyphOf(b, 3)
           /\ grid[r + 1][c + Side(b) + 1] = GlyphOf(b, 3)
           /\ grid[r][c - Side(b) + 1] = GlyphOf(b, 3)
           /\ grid[r + 1][c - Side(b) + 1] = " "

IsEven(n) == n % 2 = 0

\* the integer p is within one of the number v
WithinOne(p, v) == Abs(p * v[2] - v[1]) <= v[2]

\* a placement of the molecule's atoms at scale sc: one entry per atom, each
\* with even x and y next to the atom's scaled coordinates (y turned over)
EvenPlacement(p, sc) ==
    /\ Len(p) = Len(mol.coords)
    /\ \A k \in 1..Len(p) :
          /\ IsEven(p[k][1]) /\ IsEven(p[k][2])
          /\ WithinOne(p[k][1], RMul(mol.coords[k][1], sc))
          /\ WithinOne(-p[k][2], RMul(mol.coords[k][2], sc))

\* the midpoint of every bond of placement p is an integer cell, which the
\* truncation leaves as it is
WholeMidpoints(p) ==
    \A n \in 1..Len(mol.bonds) :
        LET b == mol.bonds[n]
        IN  BondInRange(b, Len(p)) =>
              /\ 2 * MidX(p, b) = p[b.i + 1][1] + p[b.j + 1][1]
              /\ 2 * MidY(p, b) = p[b.i + 1][2] + p[b.j + 1][2]

\* C18: every attempt of the retry loop places every atom on even integer x
\* and y, one entry per atom in atom order, so that the midpoint of every bond
\* with in-range endpoints is an integer cell that truncation does not move.
C18_EvenGrid ==
    [][(InLoop /\ pc' # "capped") => (EvenPlacement(pts', s) /\ WholeMidpoints(pts'))]_vars

\* two bonded atoms, the second at (0.9, 1.2), at scale 4/3: its scaled
\* coordinates (1.2, 1.6) are placed on (2, -2), and the midpoint is (1, -1)
C18_Witness ==
    /\ pc = "frame" /\ attempt = 0
    /\ Len(pts) = 2 /\ Len(mol.bonds) = 1
    /\ mol.coords[2] = << <<9, 10>>, <<6, 5>> >> /\ s = <<4, 3>>
    /\ pts[1] = <<0, 0>> /\ pts[2] = <<2, -2>>
    /\ MidX(pts, mol.bonds[1]) = 1 /\ MidY(pts, mol.bonds[1]) = -1

-----------------------------------------------------------------------------
(* Properties of the charges *)

\* the charge of atom index i by the pairs of a sequence: the value of the last
\* pair that names i, 0 when none does
IsChargeBy(q, pairs, i) ==
    LET naming == {t \in 1..Len(pairs) : pairs[t].idx = i}
    IN  IF naming = {} THEN q = 0
        ELSE \E t \in naming : (\A u \in naming : u <= t) /\ q = pairs[t].chg

\* the charges are those of the pairs of the "M  CHG" lines from 0-based line
\* first on, in file order, each line's pairs from left to right
ChargesBy(first, lines) ==
    LET pairs == ChgPairsFrom(lines, first)
    IN  \A i \in 0..(Len(mol.charges) - 1) : IsChargeBy(mol.charges[i + 1], pairs, i)

ParsedWell == Parsed /\ err \notin ParserErrors

\* C19 as stated: the charge list has exactly atomCount entries; the charge of
\* atom i is the value of the last pair naming i over all charge lines of the
\* input, and 0 if no pair names i; pairs that name no atom change nothing.
C19_ChargesOfAllLines ==
    ParsedWell => (Len(mol.charges) = mol.na /\ ChargesBy(0, InputLines))

\* C19 amended: the charge list has atomCount entries, none when atomCount is
\* negative, and the charge lines that count are those after the first
\* 4 + atomCount + bondCount lines of the input.
C19_ChargesOfLaterLines ==
    ParsedWell => (/\ Len(mol.charges) = (IF mol.na < 0 THEN 0 ELSE mol.na)
                   /\ ChargesBy(4 + mol.na + mol.nb, InputLines))

\* two charge lines: the first gives atom 0 the charge +1, the second gives it
\* -1 and atom 1 the charge +1
C19_Witness ==
    /\ pc = "done" /\ Len(mol.charges) = 2
    /\ LET pairs == ChgPairsFrom(InputLines, 4 + mol.na + mol.nb)
       IN  /\ Len(pairs) = 3
           /\ pairs[1] = [idx |-> 0, chg |-> 1] /\ pairs[2] = [idx |-> 0, chg |-> -1]
    /\ mol.charges = <<-1, 1>>

-----------------------------------------------------------------------------
(* Properties of the grid's size *)

\* the cells the line-writes of bond b target: the midpoint and the extra
\* strokes of lines 578-584
BondTargets(b) == << <<BondCellRow(b), BondCellCol(b)>> >> \o ExtraCells(b, 1)

\* the cells the atom writes of atom k target
LabelTargets(k) == {<<FootRow(k), c>> : c \in FootFirst(k)..FootLast(k)}

OnGrid(cell) == ~OffGrid(grid, cell[1], cell[2])

\* C20: with padding >= 0, at least one atom and every bond endpoint in range,
\* every line-write of the bond loop and every atom write of the atom loop
\* targets a cell of the grid.
C20_WritesOnGrid ==
    (cfg.pad >= 0 /\ Len(pts) >= 1) =>
        /\ pc = "bonds" => \A t \in 1..Len(BondTargets(NextBond)) : OnGrid(BondTargets(NextBond)[t])
        /\ pc = "atoms" => \A cell \in LabelTargets(ai + 1) : OnGrid(cell)

\* no padding, and a diagonal triple bond about to be drawn whose third stroke
\* goes to the grid's first row and first column
C20_Witness ==
    /\ pc = "bonds" /\ cfg.pad = 0 /\ Len(pts) = 2
    /\ Diagonal(NextBond) /\ NextBond.order = 3
    /\ BondTargets(NextBond) = << <<1, 1>>, <<1, 2>>, <<0, 0>> >>
    /\ GridHeight(grid) = 3

-----------------------------------------------------------------------------
(* Properties of the request handler *)

Settled == handler.pc = "settled"
MolMade == handler.mol # "none"

\* C21: once RDKit.get_mol has returned a molecule object the handler deletes
\* it exactly once before its result settles, whether the result is the text,
\* the SVG or the PNG response or an error thrown while depicting, rendering,
\* drawing or rasterizing; no method of the object is called after the delete,
\* and a request that got no object deletes nothing.
C21_ReleasedOnce ==
    /\ handler.deletes <= 1
    /\ ~handler.misused
    /\ handler.mol = "deleted" <=> handler.deletes = 1
    /\ Settled => handler.deletes = (IF MolMade THEN 1 ELSE 0)
    /\ (Settled /\ handler.result.kind \in {"text", "svg", "png"}) => MolMade

\* the rasterization was awaited and rejected: the object is deleted and the
\* error is the handler's result
C21_Witness ==
    /\ Settled
    /\ handler.result = Thrown("rasterizing")
    /\ handler.mol = "deleted" /\ handler.deletes = 1

=============================================================================
